---- MODULE Spec2Model ----
(***************************************************************************)
(* AutoFacil scheduling cloud functions: createBooking, confirmBooking,    *)
(* cancelBooking, rescheduleBooking, markLessonCompleted and the two       *)
(* scheduled pollers processBookingTimeouts and processPaymentReleases,    *)
(* over the Firestore collections they read and write.                     *)
(*                                                                         *)
(* Times are minutes.  A handler is split into one action per Firestore    *)
(* round trip where it runs outside a transaction; the body of a           *)
(* runTransaction is one action (Firestore serialises it), and             *)
(* SpecCreate spells the transaction out as read / validate / commit.      *)
(***************************************************************************)
EXTENDS Integers, Sequences, FiniteSets, Bags, TLC

\* ------------------------------------------------------------------ bounds
MaxTicks == 3
MaxReschedules == 1
MaxCrashes == 2
MaxRescheduleChain == 3

\* ------------------------------------------------------- program constants
AcceptanceWindow == 120
ReleaseDelay == 1440
NaN == -1

BookingIds == {1, 2}
CallIds == {1, 2, 3}
\* the function instances that run side by side in Spec, SpecSlots and SpecDeadline
Racers == {1, 2}
Students == {"s1"}
Instructors == {"i1"}
Users == Students \cup Instructors
UserTypes == {"student", "instructor"}
\* requested dates may fall inside an hour; the clock advances in whole hours
Dates == {120, 150, 180}
\* start times 5, 12, 24 and 30 hours ahead, for the cancellation policy
CancelDates == {300, 720, 1440, 1800}
Durations == {2}
NewDurations == {0, 1}
ActiveStatuses == {"pendente", "confirmada"}

VARIABLES now, bookings, calendar, bookingTimeouts, paymentReleaseQueue,
          refunds, wallet, walletTransactions, calls, crashes,
          payments, mercadoPagoRefunds, cnhValidationQueue, instructorProfiles,
          detranValidationQueue, webhookEvents, notifications, withdrawals,
          tedBatchQueue

vars == <<now, bookings, calendar, bookingTimeouts, paymentReleaseQueue,
          refunds, wallet, walletTransactions, calls, crashes,
          payments, mercadoPagoRefunds, cnhValidationQueue, instructorProfiles,
          detranValidationQueue, webhookEvents, notifications, withdrawals,
          tedBatchQueue>>

\* the collections only the refund function and the validation queue write
refundVars == <<payments, mercadoPagoRefunds>>

validationVars == <<cnhValidationQueue, instructorProfiles>>

\* the collections only the payment webhook and the withdrawals write
webhookVars == <<webhookEvents, notifications>>

\* the collections only the withdrawal functions write
withdrawalVars == <<withdrawals, tedBatchQueue>>

\* what no handler but its own writes
otherVars == <<detranValidationQueue, webhookVars, withdrawalVars>>

\* ------------------------------------------------------------- documents
InstructorDocs == [i \in Instructors |-> [status |-> "aprovado", pricePerHour |-> 70]]

NoBooking ==
  [exists |-> FALSE, studentId |-> "", instructorId |-> "", date |-> 0,
   duration |-> 0, status |-> "none", price |-> 0, depositAmount |-> 0,
   remainingAmount |-> 0, rescheduleCount |-> 0, createdAt |-> 0,
   confirmedAt |-> FALSE, completedAt |-> FALSE, cancelledBy |-> "none",
   rescheduleFee |-> 0, paymentStatus |-> "none"]

NoSlot == [exists |-> FALSE, reserved |-> FALSE, bookingId |-> 0]

\* payments/{id} of a booking, none yet: the deposit payment, and whether the
\* remaining_payment document has been added
NoPayment == [exists |-> FALSE, status |-> "", amount |-> 0, refundAmount |-> 0,
              remaining |-> "none"]

NoPaymentYet ==
  /\ payments = [b \in BookingIds |-> NoPayment]
  /\ mercadoPagoRefunds = [b \in BookingIds |-> 0]

\* cnhValidationQueue/{queueId}, none yet; deliveries counts the deliveries
\* of the document's onCreate event
NoTask == [exists |-> FALSE, status |-> "", attempts |-> 0, lastError |-> "",
           deliveries |-> 0]

\* the validation fields of instructors/{instructorId}, the instructor of
\* task q
NoReview == [detranValidated |-> FALSE, requiresManualReview |-> FALSE,
             status |-> "pendente"]

QueueIds == {1, 2}

NoValidationYet ==
  /\ cnhValidationQueue = [q \in QueueIds |-> NoTask]
  /\ instructorProfiles = [q \in QueueIds |-> NoReview]

\* no lesson task, webhook event, notification or withdrawal yet
NoOtherYet ==
  /\ detranValidationQueue = EmptyBag
  /\ webhookEvents = EmptyBag
  /\ notifications = EmptyBag
  /\ withdrawals = <<>>
  /\ tedBatchQueue = <<>>

NoTimeout == [exists |-> FALSE, scheduledFor |-> 0, processed |-> FALSE]

Idle == [op |-> "idle"]

\* the fields of the booking a handler read that it uses after its next await
snapshot(booking) ==
  [instructorId |-> booking.instructorId, date |-> booking.date,
   price |-> booking.price, depositAmount |-> booking.depositAmount]

\* ------------------------------------------------------------ pure helpers
\* YYYY-MM-DD-HH: the minutes of the date are dropped
formatDateKey(date) == date \div 60

SlotKeys == {formatDateKey(d) : d \in Dates \cup CancelDates}

\* Math.round of x / 10 for x >= 0 (round half up)
RoundTenths(x) == (x + 5) \div 10

\* Math.round of x / 100 for x >= 0 (round half up)
RoundHundredths(x) == (x + 50) \div 100

JsMul(a, b) == IF a = NaN \/ b = NaN THEN NaN ELSE a * b

JsAdd(a, b) == IF a = NaN \/ b = NaN THEN NaN ELSE a + b

JsSub(a, b) == IF a = NaN \/ b = NaN THEN NaN ELSE a - b

totalPriceOf(instructorId, duration) == InstructorDocs[instructorId].pricePerHour * duration

depositAmountOf(totalPrice) == RoundTenths(totalPrice * 2)

remainingAmountOf(totalPrice) == totalPrice - depositAmountOf(totalPrice)

\* --------------------------------------------------------------- queries
\* bookings.where(instructorId ==).where(date ==).where(status in [pendente, confirmada])
existingBookings(instructorId, date) ==
  {b \in BookingIds : /\ bookings[b].exists
                      /\ bookings[b].instructorId = instructorId
                      /\ bookings[b].date = date
                      /\ bookings[b].status \in ActiveStatuses}

\* calendarSlot.exists && calendarSlot.data()?.reserved
slotReserved(instructorId, key) ==
  calendar[<<instructorId, key>>].exists /\ calendar[<<instructorId, key>>].reserved

\* db.collection('bookings').doc(): an id no document has yet
FreeBookingIds == {b \in BookingIds : ~bookings[b].exists}

newBookingId == CHOOSE b \in FreeBookingIds : \A x \in FreeBookingIds : b <= x

\* a new invocation runs on the first idle function instance
IdleCall(c) ==
  /\ calls[c].op = "idle"
  /\ \A x \in CallIds : x < c => calls[x].op # "idle"

\* ------------------------------------------------------------------ Init
Init ==
  /\ now = 0
  /\ bookings = [b \in BookingIds |-> NoBooking]
  /\ calendar = [k \in Instructors \X SlotKeys |-> NoSlot]
  /\ bookingTimeouts = [b \in BookingIds |-> NoTimeout]
  /\ paymentReleaseQueue = <<>>
  /\ refunds = EmptyBag
  /\ wallet = [available |-> 0, blocked |-> 0, total |-> 0, penalties |-> 0]
  /\ walletTransactions = EmptyBag
  /\ calls = [c \in CallIds |-> Idle]
  /\ crashes = 0
  /\ NoPaymentYet
  /\ NoValidationYet
  /\ NoOtherYet

\* the wall clock
Tick ==
  /\ now < MaxTicks * 60
  /\ now' = now + 60
  /\ UNCHANGED <<bookings, calendar, bookingTimeouts, paymentReleaseQueue,
                 refunds, wallet, walletTransactions, calls>>
  /\ UNCHANGED <<crashes, refundVars, validationVars, otherVars>>

\* ---------------------------------------------------------- createBooking
\* steps 1-4: input validation and pricing; "" when the request passes
createValidation(instructorId, date, duration) ==
  IF duration < 1 \/ duration > 4 THEN "validation"
  ELSE IF date <= now THEN "validation"
  ELSE IF instructorId \notin Instructors THEN "not_found"
  ELSE IF InstructorDocs[instructorId].status # "aprovado" THEN "validation"
  ELSE ""

\* the conflict check with the booking query alone, the calendar slot unread
createConflictNoSlotCheck(existing, slot) ==
  IF existing # {} THEN "conflict" ELSE ""

\* the two conflict checks inside the transaction, on what the transaction read
createConflict(existing, slot) ==
  IF existing # {} THEN "conflict"
  ELSE IF slot.exists /\ slot.reserved THEN "conflict"
  ELSE ""

newBooking(studentId, instructorId, date, duration) ==
  [NoBooking EXCEPT !.exists = TRUE, !.studentId = studentId,
     !.instructorId = instructorId, !.date = date, !.duration = duration,
     !.status = "pendente", !.price = totalPriceOf(instructorId, duration),
     !.depositAmount = depositAmountOf(totalPriceOf(instructorId, duration)),
     !.remainingAmount = remainingAmountOf(totalPriceOf(instructorId, duration)),
     !.createdAt = now, !.paymentStatus = "pendente"]

\* step 5: the transaction of createBooking, committed
CreateBooking(c, studentId, instructorId, date, duration) ==
  /\ IdleCall(c)
  /\ FreeBookingIds # {}
  /\ LET v == createValidation(instructorId, date, duration)
         k == <<instructorId, formatDateKey(date)>>
         x == createConflict(existingBookings(instructorId, date), calendar[k])
         id == newBookingId
     IN IF v # "" \/ x # ""
        THEN /\ calls' = [calls EXCEPT ![c] =
                   Idle]
             /\ UNCHANGED <<bookings, calendar>>
        ELSE /\ bookings' = [bookings EXCEPT ![id] =
                   newBooking(studentId, instructorId, date, duration)]
             /\ calendar' = [calendar EXCEPT ![k] =
                   [exists |-> TRUE, reserved |-> TRUE, bookingId |-> id]]
             /\ calls' = [calls EXCEPT ![c] =
                   [op |-> "create", pc |-> "schedule", b |-> id]]
  /\ UNCHANGED <<now, bookingTimeouts, paymentReleaseQueue, refunds, wallet,
                 walletTransactions>>
  /\ UNCHANGED <<crashes, refundVars, validationVars, otherVars>>

\* step 8: scheduleAcceptanceTimeout(bookingId, 2h)
CreateScheduleTimeout(c) ==
  /\ calls[c].op = "create" /\ calls[c].pc = "schedule"
  /\ bookingTimeouts' = [bookingTimeouts EXCEPT ![calls[c].b] =
        [exists |-> TRUE, scheduledFor |-> now + AcceptanceWindow, processed |-> FALSE]]
  /\ calls' = [calls EXCEPT ![c] = Idle]
  /\ UNCHANGED <<now, bookings, calendar, paymentReleaseQueue, refunds, wallet,
                 walletTransactions>>
  /\ UNCHANGED <<crashes, refundVars, validationVars, otherVars>>

\* --------------------------------------------------------- confirmBooking
\* steps 2-5: the guards, on the booking the handler read
confirmCheckNoExpiry(booking, instructorId) ==
  IF ~booking.exists THEN "not_found"
  ELSE IF booking.instructorId # instructorId THEN "unauthorized"
  ELSE IF booking.status # "pendente" THEN "already"
  ELSE ""

confirmCheck(booking, instructorId) ==
  IF ~booking.exists THEN "not_found"
  ELSE IF booking.instructorId # instructorId THEN "unauthorized"
  ELSE IF booking.status # "pendente" THEN "already"
  ELSE IF now - booking.createdAt > AcceptanceWindow THEN "expired"
  ELSE ""

ConfirmRead(c, instructorId, b) ==
  /\ IdleCall(c)
  /\ LET r == confirmCheck(bookings[b], instructorId)
     IN calls' = [calls EXCEPT ![c] =
          IF r # "" THEN Idle
          ELSE [op |-> "confirm", pc |-> "update", b |-> b, by |-> instructorId]]
  /\ UNCHANGED <<now, bookings, calendar, bookingTimeouts, paymentReleaseQueue,
                 refunds, wallet, walletTransactions>>
  /\ UNCHANGED <<crashes, refundVars, validationVars, otherVars>>

\* step 6: bookings.doc(id).update({status: confirmada, confirmedAt})
confirmUpdate(booking) ==
  [booking EXCEPT !.status = "confirmada", !.confirmedAt = TRUE]

ConfirmUpdate(c) ==
  /\ calls[c].op = "confirm" /\ calls[c].pc = "update"
  /\ bookings' = [bookings EXCEPT ![calls[c].b] = confirmUpdate(@)]
  /\ calls' = [calls EXCEPT ![c].pc = "cancelTimeout"]
  /\ UNCHANGED <<now, calendar, bookingTimeouts, paymentReleaseQueue, refunds,
                 wallet, walletTransactions>>
  /\ UNCHANGED <<crashes, refundVars, validationVars, otherVars>>

\* step 8: cancelTimeoutJob marks the unprocessed timeout records processed
ConfirmCancelTimeout(c) ==
  /\ calls[c].op = "confirm" /\ calls[c].pc = "cancelTimeout"
  /\ bookingTimeouts' = [bookingTimeouts EXCEPT ![calls[c].b] =
        IF @.exists /\ ~@.processed THEN [@ EXCEPT !.processed = TRUE] ELSE @]
  /\ calls' = [calls EXCEPT ![c] = Idle]
  /\ UNCHANGED <<now, bookings, calendar, paymentReleaseQueue, refunds, wallet,
                 walletTransactions>>
  /\ UNCHANGED <<crashes, refundVars, validationVars, otherVars>>

\* ---------------------------------------------------------- cancelBooking
\* price * 0.5 (the prices of this model are even, so the half is exact)
JsHalf(a) == IF a = NaN THEN NaN ELSE a \div 2

\* the policy with the two boundaries on the other side (<= for <)
calculateCancellationPolicyInclusive(userType, minutesUntilBooking, totalPrice) ==
  IF userType = "student"
  THEN IF minutesUntilBooking <= 24 * 60
       THEN [refundPercentage |-> 100, penaltyAmount |-> 0, reason |-> "student_lt24"]
       ELSE [refundPercentage |-> 50, penaltyAmount |-> JsHalf(totalPrice),
             reason |-> "student_ge24"]
  ELSE IF minutesUntilBooking <= 12 * 60
       THEN [refundPercentage |-> 100, penaltyAmount |-> totalPrice,
             reason |-> "instructor_lt12"]
       ELSE [refundPercentage |-> 100, penaltyAmount |-> 0, reason |-> "instructor_ge12"]

\* refundPercentage is kept in percent; minutesUntilBooking is hoursUntilBooking * 60
calculateCancellationPolicy(userType, minutesUntilBooking, totalPrice) ==
  IF userType = "student"
  THEN IF minutesUntilBooking < 24 * 60
       THEN [refundPercentage |-> 100, penaltyAmount |-> 0, reason |-> "student_lt24"]
       ELSE [refundPercentage |-> 50, penaltyAmount |-> JsHalf(totalPrice),
             reason |-> "student_ge24"]
  ELSE IF minutesUntilBooking < 12 * 60
       THEN [refundPercentage |-> 100, penaltyAmount |-> totalPrice,
             reason |-> "instructor_lt12"]
       ELSE [refundPercentage |-> 100, penaltyAmount |-> 0, reason |-> "instructor_ge12"]

\* Math.round(policy.refundPercentage * booking.price)
refundAmountOf(policy, price) ==
  IF price = NaN THEN NaN ELSE RoundHundredths(policy.refundPercentage * price)

\* steps 2-4: the guards, on the booking the handler read
cancelCheck(booking, userId, userType) ==
  IF ~booking.exists THEN "not_found"
  ELSE IF userType = "student" /\ booking.studentId # userId THEN "unauthorized"
  ELSE IF userType = "instructor" /\ booking.instructorId # userId THEN "unauthorized"
  ELSE IF booking.status = "cancelada" THEN "already"
  ELSE IF booking.status = "concluida" THEN "completed"
  ELSE ""

CancelRead(c, userId, userType, b) ==
  /\ IdleCall(c)
  /\ LET r == cancelCheck(bookings[b], userId, userType)
     IN calls' = [calls EXCEPT ![c] =
          IF r # "" THEN Idle
          ELSE [op |-> "cancel", pc |-> "update", b |-> b, userType |-> userType,
                snap |-> snapshot(bookings[b]),
                policy |-> calculateCancellationPolicy(userType,
                             bookings[b].date - now, bookings[b].price)]]
  /\ UNCHANGED <<now, bookings, calendar, bookingTimeouts, paymentReleaseQueue,
                 refunds, wallet, walletTransactions>>
  /\ UNCHANGED <<crashes, refundVars, validationVars, otherVars>>

\* step 6: bookings.doc(id).update({status: cancelada, cancelledBy, ...})
cancelUpdate(booking, userType) ==
  [booking EXCEPT !.status = "cancelada", !.cancelledBy = userType]

CancelUpdate(c) ==
  /\ calls[c].op = "cancel" /\ calls[c].pc = "update"
  /\ bookings' = [bookings EXCEPT ![calls[c].b] = cancelUpdate(@, calls[c].userType)]
  /\ calls' = [calls EXCEPT ![c].pc = "release"]
  /\ UNCHANGED <<now, calendar, bookingTimeouts, paymentReleaseQueue, refunds,
                 wallet, walletTransactions>>
  /\ UNCHANGED <<crashes, refundVars, validationVars, otherVars>>

\* calendarSlotRef.update({reserved: false, bookingId: delete()})
releasedSlot(slot) == [slot EXCEPT !.reserved = FALSE, !.bookingId = 0]

\* step 7: the slot of the date the handler read is released; update() of a
\* document that does not exist throws, and the handler ends in its catch
CancelReleaseSlot(c) ==
  /\ calls[c].op = "cancel" /\ calls[c].pc = "release"
  /\ LET k == <<calls[c].snap.instructorId, formatDateKey(calls[c].snap.date)>>
     IN IF calendar[k].exists
        THEN /\ calendar' = [calendar EXCEPT ![k] = releasedSlot(@)]
             /\ calls' = [calls EXCEPT ![c].pc = "settle"]
        ELSE /\ calls' = [calls EXCEPT ![c] = Idle]
             /\ UNCHANGED calendar
  /\ UNCHANGED <<now, bookings, bookingTimeouts, paymentReleaseQueue, refunds,
                 wallet, walletTransactions>>
  /\ UNCHANGED <<crashes, refundVars, validationVars, otherVars>>

\* a penalty that stops at an empty wallet
penalizedWalletFloored(w, penaltyAmount) ==
  [w EXCEPT !.available = IF @ - penaltyAmount < 0 THEN 0 ELSE @ - penaltyAmount,
            !.penalties = @ + penaltyAmount]

\* applyInstructorPenalty: wallet.available -= penalty, wallet.penalties += penalty
penalizedWallet(w, penaltyAmount) ==
  [w EXCEPT !.available = @ - penaltyAmount, !.penalties = @ + penaltyAmount]

\* steps 8-9: processRefund when the refund is positive, applyInstructorPenalty
\* when an instructor cancels with a positive penalty
CancelSettle(c) ==
  /\ calls[c].op = "cancel" /\ calls[c].pc = "settle"
  /\ LET amount == refundAmountOf(calls[c].policy, calls[c].snap.price)
         penalty == calls[c].policy.penaltyAmount
         penalized == penalty # NaN /\ penalty > 0 /\ calls[c].userType = "instructor"
     IN /\ refunds' = IF amount # NaN /\ amount > 0
                      THEN refunds (+) SetToBag({[bookingId |-> calls[c].b,
                             amount |-> amount, reason |-> calls[c].policy.reason,
                             status |-> "processing"]})
                      ELSE refunds
        /\ wallet' = IF penalized THEN penalizedWallet(wallet, penalty) ELSE wallet
        /\ walletTransactions' =
             IF penalized
             THEN walletTransactions (+) SetToBag({[type |-> "penalty",
                    amount |-> 0 - penalty, bookingId |-> calls[c].b]})
             ELSE walletTransactions
  /\ calls' = [calls EXCEPT ![c] = Idle]
  /\ UNCHANGED <<now, bookings, calendar, bookingTimeouts, paymentReleaseQueue>>
  /\ UNCHANGED <<crashes, refundVars, validationVars, otherVars>>

\* ---------------------------------------------------- markLessonCompleted
\* steps 2-5: the guards, on the booking the handler read
completeCheck(booking, instructorId) ==
  IF ~booking.exists THEN "not_found"
  ELSE IF booking.instructorId # instructorId THEN "unauthorized"
  ELSE IF booking.status = "concluida" THEN "already"
  ELSE IF booking.date > now THEN "future"
  ELSE ""

CompleteRead(c, instructorId, b) ==
  /\ IdleCall(c)
  /\ LET r == completeCheck(bookings[b], instructorId)
     IN calls' = [calls EXCEPT ![c] =
          IF r # "" THEN Idle
          ELSE [op |-> "complete", pc |-> "update", b |-> b,
                snap |-> snapshot(bookings[b])]]
  /\ UNCHANGED <<now, bookings, calendar, bookingTimeouts, paymentReleaseQueue,
                 refunds, wallet, walletTransactions>>
  /\ UNCHANGED <<crashes, refundVars, validationVars, otherVars>>

\* step 6: bookings.doc(id).update({status: concluida, completedAt, ...})
completeUpdate(booking) ==
  [booking EXCEPT !.status = "concluida", !.completedAt = TRUE]

CompleteUpdate(c) ==
  /\ calls[c].op = "complete" /\ calls[c].pc = "update"
  /\ bookings' = [bookings EXCEPT ![calls[c].b] = completeUpdate(@)]
  /\ calls' = [calls EXCEPT ![c].pc = "schedule"]
  /\ UNCHANGED <<now, calendar, bookingTimeouts, paymentReleaseQueue, refunds,
                 wallet, walletTransactions>>
  /\ UNCHANGED <<crashes, refundVars, validationVars, otherVars>>

\* Math.round(totalAmount * 0.15)
platformFeeOf(totalAmount) ==
  IF totalAmount = NaN THEN NaN ELSE RoundHundredths(totalAmount * 15)

\* the record schedulePaymentRelease adds to paymentReleaseQueue
releaseRecord(bookingId, instructorId, totalAmount) ==
  [bookingId |-> bookingId, instructorId |-> instructorId,
   totalAmount |-> totalAmount, platformFee |-> platformFeeOf(totalAmount),
   instructorAmount |-> JsSub(totalAmount, platformFeeOf(totalAmount)),
   scheduledFor |-> now + ReleaseDelay, processed |-> FALSE]

\* triggerDetranValidation: detranValidationQueue.add({status: 'pending', attempts: 0})
validationTask(bookingId) ==
  [bookingId |-> bookingId, status |-> "pending", attempts |-> 0]

\* steps 7-9 with the payments write of chargeRemainingPayment failing, and
\* the failure passed on to the handler: the release is not scheduled
CompleteChargeThrows(c) ==
  /\ calls[c].op = "complete" /\ calls[c].pc = "schedule"
  /\ detranValidationQueue' =
       detranValidationQueue (+) SetToBag({validationTask(calls[c].b)})
  /\ calls' = [calls EXCEPT ![c] = Idle]
  /\ UNCHANGED <<now, bookings, calendar, bookingTimeouts, paymentReleaseQueue,
                 refunds, wallet, walletTransactions>>
  /\ UNCHANGED <<crashes, refundVars, validationVars, webhookVars, withdrawalVars>>

\* steps 7-9 with the payments write of chargeRemainingPayment failing: the
\* helper logs the error and the handler goes on
CompleteChargeFails(c) ==
  /\ calls[c].op = "complete" /\ calls[c].pc = "schedule"
  /\ detranValidationQueue' =
       detranValidationQueue (+) SetToBag({validationTask(calls[c].b)})
  /\ paymentReleaseQueue' = Append(paymentReleaseQueue,
        releaseRecord(calls[c].b, calls[c].snap.instructorId, calls[c].snap.price))
  /\ calls' = [calls EXCEPT ![c] = Idle]
  /\ UNCHANGED <<now, bookings, calendar, bookingTimeouts, refunds, wallet,
                 walletTransactions>>
  /\ UNCHANGED <<crashes, refundVars, validationVars, webhookVars, withdrawalVars>>

\* step 7: triggerDetranValidation(bookingId, booking),
\* step 8: chargeRemainingPayment(bookingId, booking), and
\* step 9: schedulePaymentRelease(bookingId, instructorId, booking.price, 24h)
CompleteSchedule(c) ==
  /\ calls[c].op = "complete" /\ calls[c].pc = "schedule"
  /\ detranValidationQueue' =
       detranValidationQueue (+) SetToBag({validationTask(calls[c].b)})
  /\ payments' = [payments EXCEPT ![calls[c].b].remaining = "processing"]
  /\ paymentReleaseQueue' = Append(paymentReleaseQueue,
        releaseRecord(calls[c].b, calls[c].snap.instructorId, calls[c].snap.price))
  /\ calls' = [calls EXCEPT ![c] = Idle]
  /\ UNCHANGED <<now, bookings, calendar, bookingTimeouts, refunds, wallet,
                 walletTransactions>>
  /\ UNCHANGED <<crashes, mercadoPagoRefunds, validationVars, webhookVars,
                 withdrawalVars>>

\* ------------------------------------------------------ rescheduleBooking
\* fee: first reschedule free, later ones Math.round(booking.price * 0.1)
rescheduleFeeOf(booking) ==
  IF booking.rescheduleCount > 0
  THEN (IF booking.price = NaN THEN NaN ELSE RoundTenths(booking.price))
  ELSE 0

\* the guards of the transaction, on what the transaction read
rescheduleCheck(booking, studentId, newDate) ==
  IF newDate <= now THEN "validation"
  ELSE IF ~booking.exists THEN "not_found"
  ELSE IF booking.studentId # studentId THEN "unauthorized"
  ELSE IF booking.status # "pendente" /\ booking.status # "confirmada" THEN "status"
  ELSE IF existingBookings(booking.instructorId, newDate) # {} THEN "conflict"
  ELSE IF ~calendar[<<booking.instructorId, formatDateKey(booking.date)>>].exists
       THEN "internal"
  ELSE ""

\* the updates object: the booking document has no pricePerHour field, so
\* booking.pricePerHour * data.newDuration is undefined * number
rescheduleUpdates(booking, newDate, newDuration) ==
  LET fee == rescheduleFeeOf(booking)
      b1 == [booking EXCEPT !.date = newDate, !.rescheduleCount = @ + 1]
      b2 == IF newDuration # 0
            THEN [b1 EXCEPT !.duration = newDuration, !.price = NaN]
            ELSE b1
  IN IF fee # NaN /\ fee > 0 THEN [b2 EXCEPT !.rescheduleFee = fee] ELSE b2

\* the two calendar writes of the transaction, in order
rescheduleCalendar(cal, booking, bookingId, newDate) ==
  LET old == <<booking.instructorId, formatDateKey(booking.date)>>
      new == <<booking.instructorId, formatDateKey(newDate)>>
      c1 == [cal EXCEPT ![old] = releasedSlot(@)]
  IN [c1 EXCEPT ![new] = [exists |-> TRUE, reserved |-> TRUE, bookingId |-> bookingId]]

\* step 2: the transaction of rescheduleBooking, committed
RescheduleBooking(c, studentId, b, newDate, newDuration) ==
  /\ IdleCall(c)
  /\ LET r == rescheduleCheck(bookings[b], studentId, newDate)
     IN IF r # ""
        THEN /\ calls' = [calls EXCEPT ![c] = Idle]
             /\ UNCHANGED <<bookings, calendar>>
        ELSE /\ bookings' = [bookings EXCEPT ![b] =
                   rescheduleUpdates(@, newDate, newDuration)]
             /\ calendar' = rescheduleCalendar(calendar, bookings[b], b, newDate)
             /\ calls' = [calls EXCEPT ![c] = Idle]
  /\ UNCHANGED <<now, bookingTimeouts, paymentReleaseQueue, refunds, wallet,
                 walletTransactions>>
  /\ UNCHANGED <<crashes, refundVars, validationVars, otherVars>>

\* ------------------------------------------------- processBookingTimeouts
\* bookingTimeouts.where(scheduledFor <= now).where(processed == false)
expiredTimeouts ==
  {b \in BookingIds : /\ bookingTimeouts[b].exists
                      /\ ~bookingTimeouts[b].processed
                      /\ bookingTimeouts[b].scheduledFor <= now}

\* one scheduled run starts: the query result is what the loop iterates over
TimeoutsQuery(c) ==
  /\ IdleCall(c)
  /\ expiredTimeouts # {}
  /\ calls' = [calls EXCEPT ![c] =
        [op |-> "timeouts", pc |-> "next", pending |-> expiredTimeouts, b |-> 0,
         snap |-> snapshot(NoBooking)]]
  /\ UNCHANGED <<now, bookings, calendar, bookingTimeouts, paymentReleaseQueue,
                 refunds, wallet, walletTransactions>>
  /\ UNCHANGED <<crashes, refundVars, validationVars, otherVars>>

\* the read with a guard that also cancels a confirmada booking
TimeoutsReadBookingActive(c, b) ==
  /\ calls[c].op = "timeouts" /\ calls[c].pc = "next"
  /\ b \in calls[c].pending
  /\ \A x \in calls[c].pending :
        bookingTimeouts[b].scheduledFor <= bookingTimeouts[x].scheduledFor
  /\ calls' = [calls EXCEPT ![c].b = b, ![c].snap = snapshot(bookings[b]),
        ![c].pc = IF bookings[b].exists /\ bookings[b].status \in ActiveStatuses
                  THEN "update" ELSE "mark"]
  /\ UNCHANGED <<now, bookings, calendar, bookingTimeouts, paymentReleaseQueue,
                 refunds, wallet, walletTransactions>>
  /\ UNCHANGED <<crashes, refundVars, validationVars, otherVars>>

\* the loop takes the next record, in scheduledFor order, and reads its booking
TimeoutsReadBooking(c, b) ==
  /\ calls[c].op = "timeouts" /\ calls[c].pc = "next"
  /\ b \in calls[c].pending
  /\ \A x \in calls[c].pending :
        bookingTimeouts[b].scheduledFor <= bookingTimeouts[x].scheduledFor
  /\ calls' = [calls EXCEPT ![c].b = b, ![c].snap = snapshot(bookings[b]),
        ![c].pc = IF bookings[b].exists /\ bookings[b].status = "pendente"
                  THEN "update" ELSE "mark"]
  /\ UNCHANGED <<now, bookings, calendar, bookingTimeouts, paymentReleaseQueue,
                 refunds, wallet, walletTransactions>>
  /\ UNCHANGED <<crashes, refundVars, validationVars, otherVars>>

\* bookings.doc(id).update({status: cancelada, cancellationReason: timeout})
timeoutUpdate(booking) ==
  [booking EXCEPT !.status = "cancelada", !.cancelledBy = "timeout"]

TimeoutsUpdate(c) ==
  /\ calls[c].op = "timeouts" /\ calls[c].pc = "update"
  /\ bookings' = [bookings EXCEPT ![calls[c].b] = timeoutUpdate(@)]
  /\ calls' = [calls EXCEPT ![c].pc = "delete"]
  /\ UNCHANGED <<now, calendar, bookingTimeouts, paymentReleaseQueue, refunds,
                 wallet, walletTransactions>>
  /\ UNCHANGED <<crashes, refundVars, validationVars, otherVars>>

\* calendarSlotRef.delete(), of the slot of the date the handler read
TimeoutsDeleteSlot(c) ==
  /\ calls[c].op = "timeouts" /\ calls[c].pc = "delete"
  /\ calendar' = [calendar EXCEPT
        ![<<calls[c].snap.instructorId, formatDateKey(calls[c].snap.date)>>] = NoSlot]
  /\ calls' = [calls EXCEPT ![c].pc = "refund"]
  /\ UNCHANGED <<now, bookings, bookingTimeouts, paymentReleaseQueue, refunds,
                 wallet, walletTransactions>>
  /\ UNCHANGED <<crashes, refundVars, validationVars, otherVars>>

\* processRefund(bookingId, booking.depositAmount, 'timeout')
TimeoutsRefund(c) ==
  /\ calls[c].op = "timeouts" /\ calls[c].pc = "refund"
  /\ refunds' = refunds (+) SetToBag({[bookingId |-> calls[c].b,
        amount |-> calls[c].snap.depositAmount, reason |-> "timeout",
        status |-> "processing"]})
  /\ calls' = [calls EXCEPT ![c].pc = "mark"]
  /\ UNCHANGED <<now, bookings, calendar, bookingTimeouts, paymentReleaseQueue,
                 wallet, walletTransactions>>
  /\ UNCHANGED <<crashes, refundVars, validationVars, otherVars>>

\* timeoutDoc.ref.update({processed: true}); the loop goes on or the run ends
TimeoutsMark(c) ==
  /\ calls[c].op = "timeouts" /\ calls[c].pc = "mark"
  /\ bookingTimeouts' = [bookingTimeouts EXCEPT ![calls[c].b].processed = TRUE]
  /\ calls' = [calls EXCEPT ![c] =
        IF calls[c].pending = {calls[c].b} THEN Idle
        ELSE [@ EXCEPT !.pending = @ \ {calls[c].b}, !.pc = "next", !.b = 0,
                       !.snap = snapshot(NoBooking)]]
  /\ UNCHANGED <<now, bookings, calendar, paymentReleaseQueue, refunds, wallet,
                 walletTransactions>>
  /\ UNCHANGED <<crashes, refundVars, validationVars, otherVars>>

\* ------------------------------------------------------------------ Spec
\* requests that name a booking name one that exists (for one that does not,
\* every handler answers not-found and writes nothing)
Existing == {b \in BookingIds : bookings[b].exists}

\* the bookings that have been rescheduled fewer than n times
Reschedulable(n) == {b \in Existing : bookings[b].rescheduleCount < n}

\* the requests and poller runs that may be in flight together are those of R;
\* every handler but rescheduleBooking
Handlers(R) ==
  \/ /\ ~bookings[1].exists
     /\ \E c \in R, s \in Students, i \in Instructors, d \in Dates, h \in Durations :
          CreateBooking(c, s, i, d, h)
  \/ \E c \in R : CreateScheduleTimeout(c)
  \/ \E c \in R, u \in Users, b \in Existing : ConfirmRead(c, u, b)
  \/ \E c \in R : ConfirmUpdate(c)
  \/ \E c \in R : ConfirmCancelTimeout(c)
  \/ \E c \in R, u \in Users, t \in UserTypes, b \in Existing :
       CancelRead(c, u, t, b)
  \/ \E c \in R : CancelUpdate(c)
  \/ \E c \in R : CancelReleaseSlot(c)
  \/ \E c \in R : CancelSettle(c)
  \/ \E c \in R, u \in Users, b \in Existing : CompleteRead(c, u, b)
  \/ \E c \in R : CompleteUpdate(c)
  \/ \E c \in R : CompleteSchedule(c)
  \/ \E c \in R : TimeoutsQuery(c)
  \/ \E c \in R, b \in Existing : TimeoutsReadBooking(c, b)
  \/ \E c \in R : TimeoutsUpdate(c)
  \/ \E c \in R : TimeoutsDeleteSlot(c)
  \/ \E c \in R : TimeoutsRefund(c)
  \/ \E c \in R : TimeoutsMark(c)

Reschedules(R) ==
  \E c \in R, u \in Users, b \in Reschedulable(MaxReschedules), d \in Dates,
     h \in NewDurations :
    RescheduleBooking(c, u, b, d, h)

Next ==
  \/ Tick
  \/ Handlers(Racers)
  \/ Reschedules(Racers)

Spec == Init /\ [][Next]_vars

\* ------------------------------------------------------------ SpecSerial
\* one request or poller run at a time: each runs to its end before the next
NextSerial ==
  \/ Tick
  \/ Handlers({1})
  \/ Reschedules({1})

SpecSerial == Init /\ [][NextSerial]_vars

\* ----------------------------------------------------------- SpecConfirm
\* concurrent requests and poller runs on a booking that is never moved
NextConfirm ==
  \/ Tick
  \/ Handlers(Racers)

SpecConfirm == Init /\ [][NextConfirm]_vars

\* ------------------------------------------------------------- SpecSlots
\* two bookings of one instructor, at a fixed instant: the handlers that
\* reserve, move and release calendar slots
NextSlots ==
  \/ \E c \in Racers, s \in Students, i \in Instructors, d \in Dates, h \in Durations :
       CreateBooking(c, s, i, d, h)
  \/ \E c \in Racers : CreateScheduleTimeout(c)
  \/ \E c \in Racers, u \in Students, b \in Reschedulable(MaxReschedules),
        d \in Dates :
       RescheduleBooking(c, u, b, d, 0)
  \/ \E c \in Racers, u \in Students, b \in Existing : CancelRead(c, u, "student", b)
  \/ \E c \in Racers : CancelUpdate(c)
  \/ \E c \in Racers : CancelReleaseSlot(c)
  \/ \E c \in Racers : CancelSettle(c)

SpecSlots == Init /\ [][NextSlots]_vars

\* ------------------------------------------------ processPaymentReleases
\* paymentReleaseQueue.where(scheduledFor <= now).where(processed == false)
dueReleases ==
  {n \in 1..Len(paymentReleaseQueue) : /\ ~paymentReleaseQueue[n].processed
                                       /\ paymentReleaseQueue[n].scheduledFor <= now}

\* one scheduled run starts: the query result is what the loop iterates over
ReleasesQuery(c) ==
  /\ IdleCall(c)
  /\ dueReleases # {}
  /\ calls' = [calls EXCEPT ![c] =
        [op |-> "releases", pc |-> "next", pending |-> dueReleases, n |-> 0]]
  /\ UNCHANGED <<now, bookings, calendar, bookingTimeouts, paymentReleaseQueue,
                 refunds, wallet, walletTransactions>>
  /\ UNCHANGED <<crashes, refundVars, validationVars, otherVars>>

\* instructorRef.update: wallet.available and wallet.total += instructorAmount
creditedWallet(w, instructorAmount) ==
  [w EXCEPT !.available = JsAdd(@, instructorAmount),
            !.total = JsAdd(@, instructorAmount)]

\* the loop takes the next record, in scheduledFor order, and credits the wallet
ReleasesCredit(c, n) ==
  /\ calls[c].op = "releases" /\ calls[c].pc = "next"
  /\ n \in calls[c].pending
  /\ \A x \in calls[c].pending :
        paymentReleaseQueue[n].scheduledFor <= paymentReleaseQueue[x].scheduledFor
  /\ wallet' = creditedWallet(wallet, paymentReleaseQueue[n].instructorAmount)
  /\ calls' = [calls EXCEPT ![c].n = n, ![c].pc = "record"]
  /\ UNCHANGED <<now, bookings, calendar, bookingTimeouts, paymentReleaseQueue,
                 refunds, walletTransactions>>
  /\ UNCHANGED <<crashes, refundVars, validationVars, otherVars>>

\* walletTransactions.add({type: credit, amount: instructorAmount, bookingId})
ReleasesRecord(c) ==
  /\ calls[c].op = "releases" /\ calls[c].pc = "record"
  /\ walletTransactions' = walletTransactions (+) SetToBag({[type |-> "credit",
        amount |-> paymentReleaseQueue[calls[c].n].instructorAmount,
        bookingId |-> paymentReleaseQueue[calls[c].n].bookingId]})
  /\ calls' = [calls EXCEPT ![c].pc = "mark"]
  /\ UNCHANGED <<now, bookings, calendar, bookingTimeouts, paymentReleaseQueue,
                 refunds, wallet>>
  /\ UNCHANGED <<crashes, refundVars, validationVars, otherVars>>

\* releaseDoc.ref.update({processed: true}); the loop goes on or the run ends
ReleasesMark(c) ==
  /\ calls[c].op = "releases" /\ calls[c].pc = "mark"
  /\ paymentReleaseQueue' = [paymentReleaseQueue EXCEPT ![calls[c].n].processed = TRUE]
  /\ calls' = [calls EXCEPT ![c] =
        IF calls[c].pending = {calls[c].n} THEN Idle
        ELSE [@ EXCEPT !.pending = @ \ {calls[c].n}, !.pc = "next", !.n = 0]]
  /\ UNCHANGED <<now, bookings, calendar, bookingTimeouts, refunds, wallet,
                 walletTransactions>>
  /\ UNCHANGED <<crashes, refundVars, validationVars, otherVars>>

\* ----------------------------------------------------------- SpecDeadline
\* a run of a scheduled function dies between two of its awaits; the
\* scheduler starts the function again at its next period
Crash(c) ==
  /\ calls[c].op \in {"timeouts", "releases"}
  /\ crashes < MaxCrashes
  /\ crashes' = crashes + 1
  /\ calls' = [calls EXCEPT ![c] = Idle]
  /\ UNCHANGED <<now, bookings, calendar, bookingTimeouts, paymentReleaseQueue,
                 refunds, wallet, walletTransactions>>
  /\ UNCHANGED <<refundVars, validationVars, otherVars>>

\* the state createBooking(date, duration) at createdAt leaves once its
\* acceptance window has passed with no answer from the instructor
InitTimeoutDue(createdAt, date, duration) ==
  /\ now = createdAt + AcceptanceWindow
  /\ bookings = [b \in BookingIds |->
       IF b = 1 THEN [newBooking("s1", "i1", date, duration) EXCEPT !.createdAt = createdAt]
       ELSE NoBooking]
  /\ calendar = [k \in Instructors \X SlotKeys |->
       IF k = <<"i1", formatDateKey(date)>>
       THEN [exists |-> TRUE, reserved |-> TRUE, bookingId |-> 1] ELSE NoSlot]
  /\ bookingTimeouts = [b \in BookingIds |->
       IF b = 1 THEN [exists |-> TRUE, scheduledFor |-> createdAt + AcceptanceWindow,
                      processed |-> FALSE]
       ELSE NoTimeout]
  /\ paymentReleaseQueue = <<>>

\* the state createBooking, confirmBooking and markLessonCompleted(at the
\* lesson's date) leave once the 24 hour hold has passed
InitReleaseDue(date, duration) ==
  /\ now = date + ReleaseDelay
  /\ bookings = [b \in BookingIds |->
       IF b = 1
       THEN completeUpdate(confirmUpdate(
              [newBooking("s1", "i1", date, duration) EXCEPT !.createdAt = 0]))
       ELSE NoBooking]
  /\ calendar = [k \in Instructors \X SlotKeys |->
       IF k = <<"i1", formatDateKey(date)>>
       THEN [exists |-> TRUE, reserved |-> TRUE, bookingId |-> 1] ELSE NoSlot]
  /\ bookingTimeouts = [b \in BookingIds |->
       IF b = 1 THEN [exists |-> TRUE, scheduledFor |-> AcceptanceWindow,
                      processed |-> TRUE]
       ELSE NoTimeout]
  /\ paymentReleaseQueue =
       <<[releaseRecord(1, "i1", totalPriceOf("i1", duration))
            EXCEPT !.scheduledFor = date + ReleaseDelay]>>

InitDeadline ==
  /\ \/ \E t \in {0, 60}, d \in Dates, h \in {1, 2} : InitTimeoutDue(t, d, h)
     \/ \E d \in Dates, h \in {1, 2} : InitReleaseDue(d, h)
  /\ refunds = EmptyBag
  /\ wallet = [available |-> 0, blocked |-> 0, total |-> 0, penalties |-> 0]
  /\ walletTransactions = EmptyBag
  /\ calls = [c \in CallIds |-> Idle]
  /\ crashes = 0
  /\ NoPaymentYet
  /\ NoValidationYet
  /\ NoOtherYet

PollerStep(c) ==
  \/ TimeoutsQuery(c)
  \/ \E b \in Existing : TimeoutsReadBooking(c, b)
  \/ TimeoutsUpdate(c)
  \/ TimeoutsDeleteSlot(c)
  \/ TimeoutsRefund(c)
  \/ TimeoutsMark(c)
  \/ ReleasesQuery(c)
  \/ \E n \in 1..Len(paymentReleaseQueue) : ReleasesCredit(c, n)
  \/ ReleasesRecord(c)
  \/ ReleasesMark(c)

\* runs of the pollers may overlap (a run that takes longer than the period,
\* or a trigger delivered twice); none dies
NextDeadline == \E c \in Racers : PollerStep(c)

SpecDeadline == InitDeadline /\ [][NextDeadline]_vars

\* one run at a time; a run may die at any await and the function runs again
NextRedelivery ==
  \/ PollerStep(1)
  \/ Crash(1)

SpecRedelivery == InitDeadline /\ [][NextRedelivery]_vars

\* ------------------------------------------------------------ SpecCreate
\* createBooking with its runTransaction spelled out: the transaction function
\* reads (the query and the slot document), throws on a conflict, or buffers
\* its writes; the commit applies them only if nothing it read has changed,
\* and the function is run again otherwise
createWrites(id, studentId, instructorId, date, duration) ==
  /\ bookings' = [bookings EXCEPT ![id] =
        newBooking(studentId, instructorId, date, duration)]
  /\ calendar' = [calendar EXCEPT ![<<instructorId, formatDateKey(date)>>] =
        [exists |-> TRUE, reserved |-> TRUE, bookingId |-> id]]

Response(res, call) ==
  [op |-> "response", res |-> res, instructorId |-> call.instructorId,
   date |-> call.date, b |-> call.b]

CreateCall(c, studentId, instructorId, date, duration) ==
  /\ calls[c].op = "idle"
  /\ createValidation(instructorId, date, duration) = ""
  /\ calls' = [calls EXCEPT ![c] =
        [op |-> "createTxn", pc |-> "read", studentId |-> studentId,
         instructorId |-> instructorId, date |-> date, duration |-> duration,
         readExisting |-> {}, readSlot |-> NoSlot, b |-> 0]]
  /\ UNCHANGED <<now, bookings, calendar, bookingTimeouts, paymentReleaseQueue,
                 refunds, wallet, walletTransactions>>
  /\ UNCHANGED <<crashes, refundVars, validationVars, otherVars>>
CreateTxnRead(c) ==
  /\ calls[c].op = "createTxn" /\ calls[c].pc = "read"
  /\ LET existing == existingBookings(calls[c].instructorId, calls[c].date)
         slot == calendar[<<calls[c].instructorId, formatDateKey(calls[c].date)>>]
     IN calls' = [calls EXCEPT ![c] =
          IF createConflict(existing, slot) # ""
          THEN Response("conflict", calls[c])
          ELSE [@ EXCEPT !.pc = "commit", !.readExisting = existing,
                         !.readSlot = slot]]
  /\ UNCHANGED <<now, bookings, calendar, bookingTimeouts, paymentReleaseQueue,
                 refunds, wallet, walletTransactions>>
  /\ UNCHANGED <<crashes, refundVars, validationVars, otherVars>>

\* what the commit validates: the documents the transaction read are unchanged
createReadsValid(call) ==
  /\ existingBookings(call.instructorId, call.date) = call.readExisting
  /\ calendar[<<call.instructorId, formatDateKey(call.date)>>] = call.readSlot

CreateTxnCommit(c) ==
  /\ calls[c].op = "createTxn" /\ calls[c].pc = "commit"
  /\ FreeBookingIds # {}
  /\ IF createReadsValid(calls[c])
     THEN /\ createWrites(newBookingId, calls[c].studentId, calls[c].instructorId,
                          calls[c].date, calls[c].duration)
          /\ calls' = [calls EXCEPT ![c].pc = "schedule", ![c].b = newBookingId]
     ELSE /\ calls' = [calls EXCEPT ![c].pc = "read"]
          /\ UNCHANGED <<bookings, calendar>>
  /\ UNCHANGED <<now, bookingTimeouts, paymentReleaseQueue, refunds, wallet,
                 walletTransactions>>
  /\ UNCHANGED <<crashes, refundVars, validationVars, otherVars>>

\* steps 6-9 and the return value
CreateTxnFinish(c) ==
  /\ calls[c].op = "createTxn" /\ calls[c].pc = "schedule"
  /\ bookingTimeouts' = [bookingTimeouts EXCEPT ![calls[c].b] =
        [exists |-> TRUE, scheduledFor |-> now + AcceptanceWindow, processed |-> FALSE]]
  /\ calls' = [calls EXCEPT ![c] = Response("ok", calls[c])]
  /\ UNCHANGED <<now, bookings, calendar, paymentReleaseQueue, refunds, wallet,
                 walletTransactions>>
  /\ UNCHANGED <<crashes, refundVars, validationVars, otherVars>>
NextCreate ==
  \/ \E c \in CallIds, s \in Students, i \in Instructors, d \in Dates, h \in Durations :
       CreateCall(c, s, i, d, h)
  \/ \E c \in CallIds : CreateTxnRead(c)
  \/ \E c \in CallIds : CreateTxnCommit(c)
  \/ \E c \in CallIds : CreateTxnFinish(c)

SpecCreate == Init /\ [][NextCreate]_vars

\* C1: of the createBooking calls that target one (instructorId, slot key),
\* under every interleaving at most one commits, and exactly one once all have
\* answered; a call answered with a conflict has created no booking and no
\* reservation (the bookings on the key are those of the committed calls, and
\* the slot is reserved for the booking of the call that committed)
Targets(i, k) ==
  {c \in CallIds : /\ calls[c].op \in {"createTxn", "response"}
                   /\ calls[c].instructorId = i
                   /\ formatDateKey(calls[c].date) = k}

Committed(i, k) ==
  {c \in Targets(i, k) : \/ calls[c].op = "response" /\ calls[c].res = "ok"
                         \/ calls[c].op = "createTxn" /\ calls[c].pc = "schedule"}

BookingsOn(i, k) ==
  {b \in BookingIds : /\ bookings[b].exists
                      /\ bookings[b].instructorId = i
                      /\ formatDateKey(bookings[b].date) = k}

C1_ExactlyOneCreateSucceeds ==
  \A i \in Instructors, k \in SlotKeys :
    /\ Cardinality(Committed(i, k)) <= 1
    /\ BookingsOn(i, k) = {calls[c].b : c \in Committed(i, k)}
    /\ slotReserved(i, k) <=> Committed(i, k) # {}
    /\ \A c \in Committed(i, k) : calendar[<<i, k>>].bookingId = calls[c].b
    /\ \A c \in Targets(i, k) :
         calls[c].op = "response" /\ calls[c].res = "conflict"
           => calls[c].b = 0 /\ Committed(i, k) # {}
    /\ (Targets(i, k) # {} /\ \A c \in Targets(i, k) : calls[c].op = "response")
         => Cardinality(Committed(i, k)) = 1

\* three calls on one slot key, two of them for different minutes of the hour,
\* have all answered: one created the booking, two got the conflict
C1_Witness ==
  \E i \in Instructors, k \in SlotKeys :
    /\ Cardinality(Targets(i, k)) = 3
    /\ \A c \in Targets(i, k) : calls[c].op = "response"
    /\ Cardinality({calls[c].date : c \in Targets(i, k)}) = 2
    /\ Cardinality({c \in Targets(i, k) : calls[c].res = "conflict"}) = 2

\* ------------------------------------------------------------------- C2
ActiveOn(i, k) ==
  {b \in BookingIds : /\ bookings[b].exists
                      /\ bookings[b].instructorId = i
                      /\ bookings[b].status \in ActiveStatuses
                      /\ formatDateKey(bookings[b].date) = k}

\* C2: in every reachable state at most one booking with status pendente or
\* confirmada exists per (instructorId, calendar slot key), bookings moved
\* by rescheduleBooking and bookings that start at different minutes of one
\* hour included.
C2_OneActiveBookingPerSlot ==
  \A i \in Instructors, k \in SlotKeys : Cardinality(ActiveOn(i, k)) <= 1

\* ------------------------------------------------------------------- C3
TimeoutRefunds(b) ==
  {r \in BagToSet(refunds) : r.bookingId = b /\ r.reason = "timeout"}

\* C3: no interleaving of confirmBooking and processBookingTimeouts leaves a
\* booking both confirmed and timeout-cancelled: a booking with confirmedAt
\* set is never cancelled by the timeout and never gets a timeout refund.
C3_ConfirmXorTimeout ==
  \A b \in BookingIds :
    bookings[b].confirmedAt =>
      /\ bookings[b].cancelledBy # "timeout"
      /\ TimeoutRefunds(b) = {}

\* ------------------------------------------------------------------- C4
Rank(status) ==
  CASE status = "pendente" -> 0
    [] status = "confirmada" -> 1
    [] status = "concluida" -> 2
    [] OTHER -> 3

\* C4: the status of a booking only moves forward, pendente to confirmada to
\* concluida or to cancelada; a cancelada booking never changes status again
\* and a concluida booking never returns to pendente or confirmada.
C4_StatusForwardOnly ==
  [][\A b \in BookingIds :
       (bookings[b].exists /\ bookings'[b].status # bookings[b].status) =>
          /\ bookings[b].status # "cancelada"
          /\ Rank(bookings'[b].status) > Rank(bookings[b].status)]_vars

\* ------------------------------------------------------------------- C5
CreditsOf(b) ==
  {t \in BagToSet(walletTransactions) : t.type = "credit" /\ t.bookingId = b}

CreditCount(b) ==
  IF CreditsOf(b) = {} THEN 0
  ELSE CopiesIn(CHOOSE t \in CreditsOf(b) : TRUE, walletTransactions)

\* C5: the payment release of a completed booking credits the wallet once,
\* however many poller runs process its record: wallet.available grows by
\* instructorAmount once and one credit wallet transaction is recorded.
C5_ReleaseCreditsOnce ==
  \A n \in 1..Len(paymentReleaseQueue) :
    /\ wallet.available <= paymentReleaseQueue[n].instructorAmount
    /\ wallet.total <= paymentReleaseQueue[n].instructorAmount
    /\ Cardinality(CreditsOf(paymentReleaseQueue[n].bookingId)) <= 1
    /\ CreditCount(paymentReleaseQueue[n].bookingId) <= 1

\* ------------------------------------------------------------------- C6
TimeoutRefundCount(b) ==
  IF TimeoutRefunds(b) = {} THEN 0
  ELSE CopiesIn(CHOOSE r \in TimeoutRefunds(b) : TRUE, refunds)

\* C6: a deadline handler that dies between two of its steps and runs again
\* never fires twice: each booking gets at most one payment release credit
\* and at most one timeout refund, whatever step the run died after.
C6_RedeliveryFiresOnce ==
  \A b \in BookingIds :
    /\ CreditCount(b) <= 1
    /\ \A n \in 1..Len(paymentReleaseQueue) :
         paymentReleaseQueue[n].bookingId = b =>
           wallet.available <= paymentReleaseQueue[n].instructorAmount
    /\ TimeoutRefundCount(b) <= 1
    /\ Cardinality(TimeoutRefunds(b)) <= 1

\* ------------------------------------------------------------------- C7
\* C7: for every booking in every reachable state depositAmount +
\* remainingAmount equals price, after rescheduleBooking with a newDuration
\* as well.
C7_DepositPlusRemainingIsPrice ==
  \A b \in BookingIds :
    bookings[b].exists =>
      /\ bookings[b].price # NaN
      /\ JsAdd(bookings[b].depositAmount, bookings[b].remainingAmount)
           = bookings[b].price

\* ------------------------------------------------------------------- C8
confirmAllowed(booking, instructorId) ==
  /\ booking.exists
  /\ booking.status = "pendente"
  /\ now - booking.createdAt <= AcceptanceWindow
  /\ booking.instructorId = instructorId

\* C8: confirmBooking passes its guards if and only if the booking is
\* pendente, at most two hours have passed since createdAt and the caller is
\* the instructor of the booking; a call that passes writes confirmada and
\* confirmedAt, and a call that is rejected writes nothing, so that the same
\* call is rejected again.
C8_ConfirmGuard ==
  /\ [](\A b \in BookingIds, u \in Users :
          (confirmCheck(bookings[b], u) = "") <=> confirmAllowed(bookings[b], u))
  /\ [][\A c \in Racers :
          /\ (calls[c].op = "idle" /\ calls'[c].op = "confirm") =>
                /\ confirmAllowed(bookings[calls'[c].b], calls'[c].by)
                /\ bookings' = bookings
          /\ (calls[c].op = "confirm" /\ calls[c].pc = "update"
                /\ calls'[c] # calls[c]) =>
                /\ bookings'[calls[c].b].status = "confirmada"
                /\ bookings'[calls[c].b].confirmedAt]_vars

\* a confirmation accepted and written exactly two hours after createdAt;
\* the same call made again is rejected
C8_Witness ==
  \E c \in Racers :
    /\ calls[c].op = "confirm" /\ calls[c].pc = "cancelTimeout"
    /\ bookings[calls[c].b].status = "confirmada"
    /\ bookings[calls[c].b].confirmedAt
    /\ calls[c].by = bookings[calls[c].b].instructorId
    /\ now - bookings[calls[c].b].createdAt = AcceptanceWindow
    /\ confirmCheck(bookings[calls[c].b], calls[c].by) = "already"

\* ------------------------------------------------------------------- C9
\* C9: markLessonCompleted passes its guards only for a confirmada booking
\* whose start is not in the future; a pendente or cancelada booking never
\* becomes concluida.
C9_CompleteOnlyConfirmed ==
  [][/\ \A c \in Racers :
          (calls[c].op = "idle" /\ calls'[c].op = "complete") =>
             /\ bookings[calls'[c].b].status = "confirmada"
             /\ bookings[calls'[c].b].date <= now
     /\ \A b \in BookingIds :
          (bookings[b].status # "concluida" /\ bookings'[b].status = "concluida")
             => bookings[b].status = "confirmada"]_vars

\* ------------------------------------------------------------------ C10
InFlightOn(b) ==
  \E c \in CallIds : calls[c].op # "idle" /\ calls[c].b = b

\* C10: once cancelBooking has set a booking to cancelada and returned, the
\* slot of the booking is released: unless another pendente or confirmada
\* booking holds that slot, createBooking for the same instructor and date
\* finds no conflict.
C10_CancelReleasesSlot ==
  \A b \in BookingIds :
    (/\ bookings[b].exists
     /\ bookings[b].status = "cancelada"
     /\ bookings[b].cancelledBy \in UserTypes
     /\ ~InFlightOn(b)
     /\ ActiveOn(bookings[b].instructorId, formatDateKey(bookings[b].date)) = {})
    => createConflict(existingBookings(bookings[b].instructorId, bookings[b].date),
         calendar[<<bookings[b].instructorId, formatDateKey(bookings[b].date)>>]) = ""

\* ------------------------------------------------------------ SpecPolicy
\* calculateCancellationPolicy on its own: the inputs are drawn, the function
\* is applied once
PolicyMinutes == {0 - 60, 0, 300, 600, 719, 720, 721, 1439, 1440, 1441, 1800}

PolicyPrices == {70, 140, 210, 280}

InitPolicy ==
  /\ now = 0
  /\ bookings = [b \in BookingIds |-> NoBooking]
  /\ calendar = [k \in Instructors \X SlotKeys |-> NoSlot]
  /\ bookingTimeouts = [b \in BookingIds |-> NoTimeout]
  /\ paymentReleaseQueue = <<>>
  /\ refunds = EmptyBag
  /\ wallet = [available |-> 0, blocked |-> 0, total |-> 0, penalties |-> 0]
  /\ walletTransactions = EmptyBag
  /\ crashes = 0
  /\ NoPaymentYet
  /\ NoValidationYet
  /\ NoOtherYet
  /\ \E t \in UserTypes, m \in PolicyMinutes, p \in PolicyPrices :
       calls = [c \in CallIds |->
         IF c = 1
         THEN [op |-> "policy", pc |-> "in", userType |-> t, minutes |-> m,
               price |-> p]
         ELSE Idle]

PolicyApply(c) ==
  /\ calls[c].op = "policy" /\ calls[c].pc = "in"
  /\ calls' = [calls EXCEPT ![c] =
        [op |-> "policy", pc |-> "out", userType |-> calls[c].userType,
         minutes |-> calls[c].minutes, price |-> calls[c].price,
         policy |-> calculateCancellationPolicy(calls[c].userType,
                      calls[c].minutes, calls[c].price)]]
  /\ UNCHANGED <<now, bookings, calendar, bookingTimeouts, paymentReleaseQueue,
                 refunds, wallet, walletTransactions>>
  /\ UNCHANGED <<crashes, refundVars, validationVars, otherVars>>

NextPolicy == \E c \in CallIds : PolicyApply(c)

SpecPolicy == InitPolicy /\ [][NextPolicy]_vars

\* ------------------------------------------------------------------ C11
PolicyResults == {c \in CallIds : calls[c].op = "policy" /\ calls[c].pc = "out"}

InitCancel ==
  /\ now = 0
  /\ \E d \in CancelDates, h \in {1, 2}, confirmed \in BOOLEAN :
       /\ bookings = [b \in BookingIds |->
            IF b = 1
            THEN IF confirmed THEN confirmUpdate(newBooking("s1", "i1", d, h))
                 ELSE newBooking("s1", "i1", d, h)
            ELSE NoBooking]
       /\ calendar = [k \in Instructors \X SlotKeys |->
            IF k = <<"i1", formatDateKey(d)>>
            THEN [exists |-> TRUE, reserved |-> TRUE, bookingId |-> 1] ELSE NoSlot]
       /\ bookingTimeouts = [b \in BookingIds |->
            IF b = 1 THEN [exists |-> TRUE, scheduledFor |-> AcceptanceWindow,
                           processed |-> confirmed]
            ELSE NoTimeout]
  /\ paymentReleaseQueue = <<>>
  /\ refunds = EmptyBag
  /\ wallet = [available |-> 0, blocked |-> 0, total |-> 0, penalties |-> 0]
  /\ walletTransactions = EmptyBag
  /\ calls = [c \in CallIds |-> Idle]
  /\ crashes = 0
  /\ NoPaymentYet
  /\ NoValidationYet
  /\ NoOtherYet

NextCancel ==
  \/ \E u \in Users, t \in UserTypes, b \in Existing : CancelRead(1, u, t, b)
  \/ CancelUpdate(1)
  \/ CancelReleaseSlot(1)
  \/ CancelSettle(1)

SpecCancel == InitCancel /\ [][NextCancel]_vars

\* the bookings a cancelBooking call of this role has cancelled and left
CancelledBy(userType) ==
  {b \in BookingIds : /\ bookings[b].exists
                      /\ bookings[b].status = "cancelada"
                      /\ bookings[b].cancelledBy = userType
                      /\ \A c \in CallIds : calls[c].op = "idle"}

RefundsOf(b) == {r \in BagToSet(refunds) : r.bookingId = b}

PenaltiesOf(b) ==
  {t \in BagToSet(walletTransactions) : t.type = "penalty" /\ t.bookingId = b}

\* ------------------------------------------------------------------ C12
\* C12: when the student cancels 24 hours or more before the start, the
\* student is refunded half the price and the instructor's wallet is
\* credited the other half.
C12_LateStudentCancelSplits ==
  \A b \in CancelledBy("student") :
    bookings[b].date - now >= 24 * 60 =>
      /\ \A r \in RefundsOf(b) : 2 * r.amount = bookings[b].price
      /\ RefundsOf(b) # {}
      /\ 2 * wallet.available = bookings[b].price

TimeoutStatuses == {"pendente", "confirmada", "cancelada", "concluida"}

bookingAfter(status, createdAt, date, duration) ==
  LET created == [newBooking("s1", "i1", date, duration) EXCEPT !.createdAt = createdAt]
  IN CASE status = "pendente" -> created
       [] status = "confirmada" -> confirmUpdate(created)
       [] status = "cancelada" -> cancelUpdate(created, "student")
       [] OTHER -> completeUpdate(created)

InitTimeout ==
  /\ \E t \in {0, 60}, d \in Dates, h \in {1, 2}, st \in TimeoutStatuses :
       /\ now = t + AcceptanceWindow
       /\ st = "concluida" => d <= now
       /\ bookings = [b \in BookingIds |->
            IF b = 1 THEN bookingAfter(st, t, d, h) ELSE NoBooking]
       /\ calendar = [k \in Instructors \X SlotKeys |->
            IF k = <<"i1", formatDateKey(d)>>
            THEN IF st = "cancelada"
                 THEN releasedSlot([exists |-> TRUE, reserved |-> TRUE, bookingId |-> 1])
                 ELSE [exists |-> TRUE, reserved |-> TRUE, bookingId |-> 1]
            ELSE NoSlot]
       /\ bookingTimeouts = [b \in BookingIds |->
            IF b = 1 THEN [exists |-> TRUE, scheduledFor |-> t + AcceptanceWindow,
                           processed |-> FALSE]
            ELSE NoTimeout]
       /\ paymentReleaseQueue =
            IF st = "concluida"
            THEN <<releaseRecord(1, "i1", totalPriceOf("i1", h))>>
            ELSE <<>>
       /\ refunds =
            IF st = "cancelada"
            THEN SetToBag({[bookingId |-> 1, amount |-> totalPriceOf("i1", h),
                            reason |-> "student_lt24",
                            status |-> "processing"]})
            ELSE EmptyBag
  /\ wallet = [available |-> 0, blocked |-> 0, total |-> 0, penalties |-> 0]
  /\ walletTransactions = EmptyBag
  /\ calls = [c \in CallIds |-> Idle]
  /\ crashes = 0
  /\ NoPaymentYet
  /\ NoValidationYet
  /\ NoOtherYet

NextTimeout ==
  \/ TimeoutsQuery(1)
  \/ \E b \in Existing : TimeoutsReadBooking(1, b)
  \/ TimeoutsUpdate(1)
  \/ TimeoutsDeleteSlot(1)
  \/ TimeoutsRefund(1)
  \/ TimeoutsMark(1)

SpecTimeout == InitTimeout /\ [][NextTimeout]_vars

\* ------------------------------------------------------------------ C14
\* the timeout record of b is processed and the run that processed it is over
TimeoutDone(b) ==
  /\ bookingTimeouts[b].exists
  /\ bookingTimeouts[b].processed
  /\ \A c \in CallIds : calls[c].op = "idle"

NextReschedule ==
  \/ /\ ~bookings[1].exists
     /\ \E s \in Students, i \in Instructors, d \in Dates, h \in {1, 2} :
          CreateBooking(1, s, i, d, h)
  \/ CreateScheduleTimeout(1)
  \/ \E u \in Instructors, b \in Existing : ConfirmRead(1, u, b)
  \/ ConfirmUpdate(1)
  \/ ConfirmCancelTimeout(1)
  \/ \E u \in Users, b \in Reschedulable(MaxRescheduleChain), d \in Dates,
        h \in NewDurations :
       RescheduleBooking(1, u, b, d, h)

SpecReschedule == Init /\ [][NextReschedule]_vars

\* ------------------------------------------------------------------ C15
\* depositAmount and remainingAmount are written by createBooking alone:
\* their sum is the price the booking was created with
originalPrice(booking) == booking.depositAmount + booking.remainingAmount

\* a step that reschedules b
Rescheduled(b) ==
  /\ bookings[b].exists
  /\ bookings'[b].rescheduleCount = bookings[b].rescheduleCount + 1

\* C15: the first reschedule of a booking charges no fee; the second and
\* every later one charges 10% of the price the booking was created with,
\* whatever newDuration this or an earlier reschedule carried.
C15_RescheduleFeeOfOriginalPrice ==
  [][\A b \in BookingIds :
       Rescheduled(b) =>
         /\ rescheduleFeeOf(bookings[b]) =
              IF bookings[b].rescheduleCount = 0 THEN 0
              ELSE RoundTenths(originalPrice(bookings[b]))
         /\ bookings'[b].rescheduleFee = rescheduleFeeOf(bookings[b])]_vars

\* ------------------------------------------------------------------ C16
\* the slot i, k is reserved for a booking other than b
TakenByOther(i, k, b) ==
  \/ slotReserved(i, k) /\ calendar[<<i, k>>].bookingId # b
  \/ ActiveOn(i, k) \ {b} # {}

\* C16: rescheduleBooking is one atomic step: onto a slot that another
\* booking holds it fails and changes nothing; when it succeeds the old slot
\* is released, the new slot is reserved for this booking and rescheduleCount
\* grows by exactly 1 in that same step. rescheduleCount never decreases.
C16_RescheduleAtomic ==
  [][\A b \in BookingIds :
       /\ bookings'[b].rescheduleCount >= bookings[b].rescheduleCount
       /\ (bookings[b].exists /\ bookings'[b].date # bookings[b].date) =>
             LET i == bookings[b].instructorId
                 old == formatDateKey(bookings[b].date)
                 new == formatDateKey(bookings'[b].date)
             IN /\ bookings'[b].rescheduleCount = bookings[b].rescheduleCount + 1
                /\ calendar'[<<i, new>>].reserved
                /\ calendar'[<<i, new>>].bookingId = b
                /\ old # new => ~calendar'[<<i, old>>].reserved
                /\ ~TakenByOther(i, new, b)]_vars

\* ------------------------------------------------------------------ C17
\* C17: every payment release record of a confirmed and completed booking
\* splits its totalAmount exactly: platformFee is totalAmount x 15% rounded
\* half up, instructorAmount is the rest, and the two sum to totalAmount.
C17_ReleaseSplitExact ==
  \A n \in 1..Len(paymentReleaseQueue) :
    LET r == paymentReleaseQueue[n]
    IN bookings[r.bookingId].confirmedAt =>
         /\ r.totalAmount # NaN
         /\ r.platformFee = RoundHundredths(r.totalAmount * 15)
         /\ r.instructorAmount = r.totalAmount - r.platformFee
         /\ JsAdd(r.platformFee, r.instructorAmount) = r.totalAmount

\* ------------------------------------------------------------- SpecSplit
\* schedulePaymentRelease on its own, for a lesson bought alone or as part of
\* a package of packageHours hours; the function takes no package argument
SplitAmounts == {70, 80, 90, 140, 150, 160, 210, 240, 280, 300, 320}

PackageHours == {0, 10, 19, 20, 40}

\* calculatePaymentSplit of the payment flow document: the percentage alone
feePercentageOf(packageHours) == IF packageHours >= 20 THEN 10 ELSE 15

InitSplit ==
  /\ now = 0
  /\ bookings = [b \in BookingIds |-> NoBooking]
  /\ calendar = [k \in Instructors \X SlotKeys |-> NoSlot]
  /\ bookingTimeouts = [b \in BookingIds |-> NoTimeout]
  /\ paymentReleaseQueue = <<>>
  /\ refunds = EmptyBag
  /\ wallet = [available |-> 0, blocked |-> 0, total |-> 0, penalties |-> 0]
  /\ walletTransactions = EmptyBag
  /\ crashes = 0
  /\ NoPaymentYet
  /\ NoValidationYet
  /\ NoOtherYet
  /\ \E a \in SplitAmounts, p \in PackageHours :
       calls = [c \in CallIds |->
         IF c = 1
         THEN [op |-> "split", pc |-> "in", b |-> 1, totalAmount |-> a,
               packageHours |-> p]
         ELSE Idle]

SplitApply(c) ==
  /\ calls[c].op = "split" /\ calls[c].pc = "in"
  /\ paymentReleaseQueue' = Append(paymentReleaseQueue,
        releaseRecord(calls[c].b, "i1", calls[c].totalAmount))
  /\ calls' = [calls EXCEPT ![c].pc = "out"]
  /\ UNCHANGED <<now, bookings, calendar, bookingTimeouts, refunds, wallet,
                 walletTransactions>>
  /\ UNCHANGED <<crashes, refundVars, validationVars, otherVars>>

NextSplit == \E c \in CallIds : SplitApply(c)

SpecSplit == InitSplit /\ [][NextSplit]_vars

\* ------------------------------------------------------------------ C18
\* C18: the platform fee of a release record is 15% of its totalAmount, and
\* 10% when the lesson belongs to a package of 20 hours or more.
C18_FeePercentByPackage ==
  \A c \in CallIds :
    (calls[c].op = "split" /\ calls[c].pc = "out") =>
      \A n \in 1..Len(paymentReleaseQueue) :
        paymentReleaseQueue[n].platformFee =
          RoundHundredths(calls[c].totalAmount * feePercentageOf(calls[c].packageHours))

\* ------------------------------------------------------------ processRefund
\* step 4: payments where bookingId == b and status == APROVADO, limit 1
approvedPayment(b) == payments[b].exists /\ payments[b].status = "aprovado"

\* step 6: refunds where bookingId == b and status == 'approved', limit 1
existingRefund(b) ==
  {r \in BagToSet(refunds) : r.bookingId = b /\ r.status = "approved"}

\* steps 2-3: the booking exists and is cancelada
RefundReadBooking(c, b, amount) ==
  /\ calls[c].op = "idle"
  /\ bookings[b].exists
  /\ bookings[b].status = "cancelada"
  /\ calls' = [calls EXCEPT ![c] =
       [op |-> "refund", pc |-> "payment", b |-> b, amount |-> amount]]
  /\ UNCHANGED <<now, bookings, calendar, bookingTimeouts, paymentReleaseQueue,
                 refunds, wallet, walletTransactions>>
  /\ UNCHANGED <<crashes, refundVars, validationVars, otherVars>>

\* steps 4-5: an approved payment of at least the amount asked for
RefundReadPayment(c) ==
  /\ calls[c].op = "refund" /\ calls[c].pc = "payment"
  /\ calls' = [calls EXCEPT ![c] =
       IF approvedPayment(calls[c].b) /\ calls[c].amount <= payments[calls[c].b].amount
       THEN [@ EXCEPT !.pc = "existing"]
       ELSE Idle]
  /\ UNCHANGED <<now, bookings, calendar, bookingTimeouts, paymentReleaseQueue,
                 refunds, wallet, walletTransactions>>
  /\ UNCHANGED <<crashes, refundVars, validationVars, otherVars>>

\* step 6: 'Booking has already been refunded'
RefundCheckExisting(c) ==
  /\ calls[c].op = "refund" /\ calls[c].pc = "existing"
  /\ calls' = [calls EXCEPT ![c] =
       IF existingRefund(calls[c].b) = {} THEN [@ EXCEPT !.pc = "gateway"] ELSE Idle]
  /\ UNCHANGED <<now, bookings, calendar, bookingTimeouts, paymentReleaseQueue,
                 refunds, wallet, walletTransactions>>
  /\ UNCHANGED <<crashes, refundVars, validationVars, otherVars>>

\* step 7: processMercadoPagoRefund
RefundGateway(c) ==
  /\ calls[c].op = "refund" /\ calls[c].pc = "gateway"
  /\ mercadoPagoRefunds' = [mercadoPagoRefunds EXCEPT ![calls[c].b] = @ + 1]
  /\ calls' = [calls EXCEPT ![c].pc = "record"]
  /\ UNCHANGED <<now, bookings, calendar, bookingTimeouts, paymentReleaseQueue,
                 refunds, wallet, walletTransactions>>
  /\ UNCHANGED <<crashes, payments, validationVars, otherVars>>

\* step 8: refunds.add({..., status: 'approved'})
RefundRecord(c) ==
  /\ calls[c].op = "refund" /\ calls[c].pc = "record"
  /\ refunds' = refunds (+) SetToBag({[bookingId |-> calls[c].b,
        amount |-> calls[c].amount, reason |-> "request", status |-> "approved"]})
  /\ calls' = [calls EXCEPT ![c].pc = "paymentUpdate"]
  /\ UNCHANGED <<now, bookings, calendar, bookingTimeouts, paymentReleaseQueue,
                 wallet, walletTransactions>>
  /\ UNCHANGED <<crashes, refundVars, validationVars, otherVars>>

\* step 9: paymentDoc.ref.update({status: REEMBOLSADO, refundAmount})
RefundUpdatePayment(c) ==
  /\ calls[c].op = "refund" /\ calls[c].pc = "paymentUpdate"
  /\ payments' = [payments EXCEPT ![calls[c].b] =
       [@ EXCEPT !.status = "reembolsado", !.refundAmount = calls[c].amount]]
  /\ calls' = [calls EXCEPT ![c] = Idle]
  /\ UNCHANGED <<now, bookings, calendar, bookingTimeouts, paymentReleaseQueue,
                 refunds, wallet, walletTransactions>>
  /\ UNCHANGED <<crashes, mercadoPagoRefunds, validationVars, otherVars>>

\* ------------------------------------------------------------- SpecRefund
\* a booking whose deposit payment the gateway has approved; the student or
\* the instructor cancels it, and refund requests arrive on two instances
RefundCallIds == {2, 3}

InitRefund ==
  /\ now = 0
  /\ \E d \in {1440, 1800}, h \in {1, 2} :
       /\ bookings = [b \in BookingIds |->
            IF b = 1 THEN newBooking("s1", "i1", d, h) ELSE NoBooking]
       /\ calendar = [k \in Instructors \X SlotKeys |->
            IF k = <<"i1", formatDateKey(d)>>
            THEN [exists |-> TRUE, reserved |-> TRUE, bookingId |-> 1] ELSE NoSlot]
       /\ payments = [b \in BookingIds |->
            IF b = 1
            THEN [exists |-> TRUE, status |-> "aprovado",
                  amount |-> depositAmountOf(totalPriceOf("i1", h)),
                  refundAmount |-> 0, remaining |-> "none"]
            ELSE NoPayment]
  /\ bookingTimeouts = [b \in BookingIds |->
       IF b = 1 THEN [exists |-> TRUE, scheduledFor |-> AcceptanceWindow,
                      processed |-> FALSE]
       ELSE NoTimeout]
  /\ paymentReleaseQueue = <<>>
  /\ refunds = EmptyBag
  /\ wallet = [available |-> 0, blocked |-> 0, total |-> 0, penalties |-> 0]
  /\ walletTransactions = EmptyBag
  /\ calls = [c \in CallIds |-> Idle]
  /\ crashes = 0
  /\ mercadoPagoRefunds = [b \in BookingIds |-> 0]
  /\ NoValidationYet
  /\ NoOtherYet

NextRefund ==
  \/ \E u \in Users, t \in UserTypes, b \in Existing : CancelRead(1, u, t, b)
  \/ CancelUpdate(1)
  \/ CancelReleaseSlot(1)
  \/ CancelSettle(1)
  \/ \E c \in RefundCallIds, b \in Existing :
       \E amount \in {bookings[b].depositAmount, bookings[b].price} :
         RefundReadBooking(c, b, amount)
  \/ \E c \in RefundCallIds : RefundReadPayment(c)
  \/ \E c \in RefundCallIds : RefundCheckExisting(c)
  \/ \E c \in RefundCallIds : RefundGateway(c)
  \/ \E c \in RefundCallIds : RefundRecord(c)
  \/ \E c \in RefundCallIds : RefundUpdatePayment(c)

SpecRefund == InitRefund /\ [][NextRefund]_vars

\* ------------------------------------------------------------------ C19
\* C19: whatever the order or interleaving of refund requests, the gateway
\* refunds a booking at most once and the booking has at most one approved
\* refund record.
C19_AtMostOneRefundPaid ==
  \A b \in BookingIds :
    /\ mercadoPagoRefunds[b] <= 1
    /\ \A r \in existingRefund(b) : CopiesIn(r, refunds) <= 1
    /\ Cardinality(existingRefund(b)) <= 1

\* ------------------------------------------------- processCNHValidationQueue
MaxDeliveries == 2

\* what callDetranAPI meets: an answer that passes, an answer that does not,
\* no answer in 10 s, a 5xx or network error, a 4xx error
DetranOutcomes == {"approved", "rejected", "timeout", "5xx", "4xx"}

DetranErrors == {"timeout", "5xx", "4xx"}

\* triggerCNHValidation: cnhValidationQueue.add({status: 'pending', attempts: 0})
TriggerCNHValidation(q) ==
  /\ ~cnhValidationQueue[q].exists
  /\ cnhValidationQueue' = [cnhValidationQueue EXCEPT ![q] =
       [exists |-> TRUE, status |-> "pending", attempts |-> 0, lastError |-> "",
        deliveries |-> 0]]
  /\ UNCHANGED <<now, bookings, calendar, bookingTimeouts, paymentReleaseQueue,
                 refunds, wallet, walletTransactions, calls>>
  /\ UNCHANGED <<crashes, refundVars, instructorProfiles, otherVars>>

\* onCreate(snap): the event carries the document as it was created, so
\* queueData.attempts is the 0 of triggerCNHValidation at every delivery
ValidationStart(c, q) ==
  /\ IdleCall(c)
  /\ cnhValidationQueue[q].exists
  /\ cnhValidationQueue[q].deliveries < MaxDeliveries
  /\ cnhValidationQueue' = [cnhValidationQueue EXCEPT ![q].deliveries = @ + 1]
  /\ calls' = [calls EXCEPT ![c] =
       [op |-> "validation", pc |-> "detran", q |-> q,
        queueData |-> [status |-> "pending", attempts |-> 0]]]
  /\ UNCHANGED <<now, bookings, calendar, bookingTimeouts, paymentReleaseQueue,
                 refunds, wallet, walletTransactions>>
  /\ UNCHANGED <<crashes, refundVars, instructorProfiles, otherVars>>

\* callDetranAPI: a result, or a FunctionError for every axios error
ValidationCallDetran(c, outcome) ==
  /\ calls[c].op = "validation" /\ calls[c].pc = "detran"
  /\ calls' = [calls EXCEPT ![c] =
       [op |-> "validation",
        pc |-> IF outcome = "approved" THEN "approve"
               ELSE IF outcome = "rejected" THEN "review" ELSE "catch",
        q |-> calls[c].q, queueData |-> calls[c].queueData, error |-> outcome]]
  /\ UNCHANGED <<now, bookings, calendar, bookingTimeouts, paymentReleaseQueue,
                 refunds, wallet, walletTransactions>>
  /\ UNCHANGED <<crashes, refundVars, validationVars, otherVars>>

\* isValid && hasEAR: instructorRef.update({detranValidated: true, status: 'aprovado'})
ValidationApprove(c) ==
  /\ calls[c].op = "validation" /\ calls[c].pc = "approve"
  /\ instructorProfiles' = [instructorProfiles EXCEPT ![calls[c].q] =
       [@ EXCEPT !.detranValidated = TRUE, !.status = "aprovado"]]
  /\ calls' = [calls EXCEPT ![c].pc = "complete"]
  /\ UNCHANGED <<now, bookings, calendar, bookingTimeouts, paymentReleaseQueue,
                 refunds, wallet, walletTransactions>>
  /\ UNCHANGED <<crashes, refundVars, cnhValidationQueue, otherVars>>

\* else: instructorRef.update({detranValidated: false, requiresManualReview: true})
ValidationReview(c) ==
  /\ calls[c].op = "validation" /\ calls[c].pc = "review"
  /\ instructorProfiles' = [instructorProfiles EXCEPT ![calls[c].q] =
       [@ EXCEPT !.detranValidated = FALSE, !.requiresManualReview = TRUE]]
  /\ calls' = [calls EXCEPT ![c].pc = "complete"]
  /\ UNCHANGED <<now, bookings, calendar, bookingTimeouts, paymentReleaseQueue,
                 refunds, wallet, walletTransactions>>
  /\ UNCHANGED <<crashes, refundVars, cnhValidationQueue, otherVars>>

\* snap.ref.update({status: 'completed'})
ValidationComplete(c) ==
  /\ calls[c].op = "validation" /\ calls[c].pc = "complete"
  /\ cnhValidationQueue' = [cnhValidationQueue EXCEPT ![calls[c].q].status = "completed"]
  /\ calls' = [calls EXCEPT ![c] = Idle]
  /\ UNCHANGED <<now, bookings, calendar, bookingTimeouts, paymentReleaseQueue,
                 refunds, wallet, walletTransactions>>
  /\ UNCHANGED <<crashes, refundVars, instructorProfiles, otherVars>>

\* catch: attempts = queueData.attempts || 0; below 3 the task gets
\* attempts + 1 and the error, else it fails and the instructor goes to
\* manual review; nothing in the handler runs the task again
ValidationCatch(c) ==
  /\ calls[c].op = "validation" /\ calls[c].pc = "catch"
  /\ LET attempts == calls[c].queueData.attempts
     IN IF attempts < 3
        THEN /\ cnhValidationQueue' = [cnhValidationQueue EXCEPT ![calls[c].q] =
                  [@ EXCEPT !.attempts = attempts + 1, !.lastError = calls[c].error]]
             /\ UNCHANGED instructorProfiles
        ELSE /\ cnhValidationQueue' = [cnhValidationQueue EXCEPT ![calls[c].q].status = "failed"]
             /\ instructorProfiles' = [instructorProfiles EXCEPT ![calls[c].q] =
                  [@ EXCEPT !.detranValidated = FALSE, !.requiresManualReview = TRUE]]
  /\ calls' = [calls EXCEPT ![c] = Idle]
  /\ UNCHANGED <<now, bookings, calendar, bookingTimeouts, paymentReleaseQueue,
                 refunds, wallet, walletTransactions>>
  /\ UNCHANGED <<crashes, refundVars, otherVars>>

NextValidation ==
  \/ \E q \in QueueIds : TriggerCNHValidation(q)
  \/ \E c \in CallIds, q \in QueueIds : ValidationStart(c, q)
  \/ \E c \in CallIds, outcome \in DetranOutcomes : ValidationCallDetran(c, outcome)
  \/ \E c \in CallIds : ValidationApprove(c)
  \/ \E c \in CallIds : ValidationReview(c)
  \/ \E c \in CallIds : ValidationComplete(c)
  \/ \E c \in CallIds : ValidationCatch(c)

SpecValidation == Init /\ [][NextValidation]_vars

\* ------------------------------------------------------------------ C20
\* no run of the handler is at work on task q
ValidationAtRest(q) ==
  \A c \in CallIds : calls[c].op = "validation" => calls[c].q # q

\* C20: once the handler has left a task, a timeout or a 4xx error at attempt
\* 0 has sent it to manual review, and a 5xx or network error has sent it to
\* manual review only after three attempts.
C20_ErrorRouting ==
  \A q \in QueueIds :
    (cnhValidationQueue[q].exists /\ ValidationAtRest(q)) =>
      /\ cnhValidationQueue[q].lastError \in {"timeout", "4xx"} =>
           instructorProfiles[q].requiresManualReview
      /\ (cnhValidationQueue[q].lastError = "5xx"
            /\ cnhValidationQueue[q].status = "failed") =>
           cnhValidationQueue[q].attempts = 3

\* ------------------------------------------------------------- FairSerial
\* SpecSerial where a handler that can take its next step takes it
FairSerial == SpecSerial /\ WF_vars(NextSerial)

\* ------------------------------------------------------------------ C21
\* the lesson tasks of booking b that are neither validated nor in manual review
PendingTasks(b) ==
  {t \in BagToSet(detranValidationQueue) : t.bookingId = b /\ t.status = "pending"}

\* C21: no lesson task has more than 3 attempts, and a booking that has a
\* pending lesson task eventually has none.
C21_TaskReachesTerminal ==
  /\ [](\A t \in BagToSet(detranValidationQueue) : t.attempts <= 3)
  /\ \A b \in BookingIds : (PendingTasks(b) # {}) ~> (PendingTasks(b) = {})

\* ------------------------------------------------------ handlePaymentWebhook
RequestIds == {1, 2}

\* what fetchPaymentDetails can answer for a payment
MercadoPagoStatuses == {"approved", "pending", "rejected"}

mapMercadoPagoStatus(mpStatus) ==
  CASE mpStatus = "approved" -> "aprovado"
    [] mpStatus \in {"pending", "in_process"} -> "pendente"
    [] mpStatus \in {"rejected", "cancelled"} -> "rejeitado"
    [] mpStatus \in {"refunded", "charged_back"} -> "reembolsado"
    [] OTHER -> "pendente"

\* step 4: webhookEvents where requestId == requestId, limit 1
existingWebhook(requestId) ==
  {e \in BagToSet(webhookEvents) : e.requestId = requestId}

\* steps 1-4: a signed payment event about the payment of booking b; an
\* event whose request id is on record is acknowledged and dropped
WebhookReceive(c, requestId, b) ==
  /\ IdleCall(c)
  /\ calls' = [calls EXCEPT ![c] =
       IF existingWebhook(requestId) # {} THEN Idle
       ELSE [op |-> "webhook", pc |-> "fetch", requestId |-> requestId, b |-> b]]
  /\ UNCHANGED <<now, bookings, calendar, bookingTimeouts, paymentReleaseQueue,
                 refunds, wallet, walletTransactions>>
  /\ UNCHANGED <<crashes, refundVars, validationVars, otherVars>>

\* steps 5-6: fetchPaymentDetails, then the payment with that externalId
WebhookFetch(c, mpStatus) ==
  /\ calls[c].op = "webhook" /\ calls[c].pc = "fetch"
  /\ calls' = [calls EXCEPT ![c] =
       IF payments[calls[c].b].exists
       THEN [op |-> "webhook", pc |-> "payment", requestId |-> calls[c].requestId,
             b |-> calls[c].b, mpStatus |-> mpStatus,
             newStatus |-> mapMercadoPagoStatus(mpStatus)]
       ELSE Idle]
  /\ UNCHANGED <<now, bookings, calendar, bookingTimeouts, paymentReleaseQueue,
                 refunds, wallet, walletTransactions>>
  /\ UNCHANGED <<crashes, refundVars, validationVars, otherVars>>

\* step 7: paymentDoc.ref.update({status: newStatus})
WebhookUpdatePayment(c) ==
  /\ calls[c].op = "webhook" /\ calls[c].pc = "payment"
  /\ payments' = [payments EXCEPT ![calls[c].b].status = calls[c].newStatus]
  /\ calls' = [calls EXCEPT ![c].pc = "booking"]
  /\ UNCHANGED <<now, bookings, calendar, bookingTimeouts, paymentReleaseQueue,
                 refunds, wallet, walletTransactions>>
  /\ UNCHANGED <<crashes, mercadoPagoRefunds, validationVars, otherVars>>

\* step 8: bookings.doc(payment.bookingId).update({paymentStatus: newStatus})
WebhookUpdateBooking(c) ==
  /\ calls[c].op = "webhook" /\ calls[c].pc = "booking"
  /\ bookings[calls[c].b].exists
  /\ bookings' = [bookings EXCEPT ![calls[c].b].paymentStatus = calls[c].newStatus]
  /\ calls' = [calls EXCEPT ![c].pc = "notify"]
  /\ UNCHANGED <<now, calendar, bookingTimeouts, paymentReleaseQueue,
                 refunds, wallet, walletTransactions>>
  /\ UNCHANGED <<crashes, refundVars, validationVars, otherVars>>

\* handlePaymentApproved: payment_confirmed to the student, payment_received
\* to the instructor; handlePaymentRejected: payment_failed to the student
webhookNotifications(newStatus, bookingId, requestId) ==
  IF newStatus = "aprovado"
  THEN SetToBag({[type |-> "payment_confirmed", bookingId |-> bookingId],
                 [type |-> "payment_received", bookingId |-> bookingId]})
  ELSE IF newStatus = "rejeitado"
  THEN SetToBag({[type |-> "payment_failed", bookingId |-> bookingId]})
  ELSE EmptyBag

\* step 9: the notifications of the new status
WebhookNotify(c) ==
  /\ calls[c].op = "webhook" /\ calls[c].pc = "notify"
  /\ notifications' = notifications (+)
       webhookNotifications(calls[c].newStatus, calls[c].b, calls[c].requestId)
  /\ calls' = [calls EXCEPT ![c].pc = "record"]
  /\ UNCHANGED <<now, bookings, calendar, bookingTimeouts, paymentReleaseQueue,
                 refunds, wallet, walletTransactions>>
  /\ UNCHANGED <<crashes, refundVars, validationVars, detranValidationQueue,
                 webhookEvents, withdrawalVars>>

\* step 10: webhookEvents.add({requestId, status}), then 200 OK
WebhookRecord(c) ==
  /\ calls[c].op = "webhook" /\ calls[c].pc = "record"
  /\ webhookEvents' = webhookEvents (+)
       SetToBag({[requestId |-> calls[c].requestId, status |-> calls[c].mpStatus]})
  /\ calls' = [calls EXCEPT ![c] = Idle]
  /\ UNCHANGED <<now, bookings, calendar, bookingTimeouts, paymentReleaseQueue,
                 refunds, wallet, walletTransactions>>
  /\ UNCHANGED <<crashes, refundVars, validationVars, detranValidationQueue,
                 notifications, withdrawalVars>>

\* ------------------------------------------------------------ SpecWebhook
\* a pendente booking with its deposit payment open at the gateway; webhook
\* deliveries about that payment arrive on two instances
InitWebhook ==
  /\ now = 0
  /\ \E d \in Dates, h \in {1, 2} :
       /\ bookings = [b \in BookingIds |->
            IF b = 1 THEN newBooking("s1", "i1", d, h) ELSE NoBooking]
       /\ calendar = [k \in Instructors \X SlotKeys |->
            IF k = <<"i1", formatDateKey(d)>>
            THEN [exists |-> TRUE, reserved |-> TRUE, bookingId |-> 1] ELSE NoSlot]
       /\ payments = [b \in BookingIds |->
            IF b = 1
            THEN [exists |-> TRUE, status |-> "pendente",
                  amount |-> depositAmountOf(totalPriceOf("i1", h)),
                  refundAmount |-> 0, remaining |-> "none"]
            ELSE NoPayment]
  /\ bookingTimeouts = [b \in BookingIds |->
       IF b = 1 THEN [exists |-> TRUE, scheduledFor |-> AcceptanceWindow,
                      processed |-> FALSE]
       ELSE NoTimeout]
  /\ paymentReleaseQueue = <<>>
  /\ refunds = EmptyBag
  /\ wallet = [available |-> 0, blocked |-> 0, total |-> 0, penalties |-> 0]
  /\ walletTransactions = EmptyBag
  /\ calls = [c \in CallIds |-> Idle]
  /\ crashes = 0
  /\ mercadoPagoRefunds = [b \in BookingIds |-> 0]
  /\ NoValidationYet
  /\ NoOtherYet

NextWebhook ==
  \/ \E c \in Racers, r \in RequestIds, b \in Existing : WebhookReceive(c, r, b)
  \/ \E c \in Racers, mp \in MercadoPagoStatuses : WebhookFetch(c, mp)
  \/ \E c \in Racers : WebhookUpdatePayment(c)
  \/ \E c \in Racers : WebhookUpdateBooking(c)
  \/ \E c \in Racers : WebhookNotify(c)
  \/ \E c \in Racers : WebhookRecord(c)

SpecWebhook == InitWebhook /\ [][NextWebhook]_vars

\* ------------------------------------------------------------------ C22
\* no webhook delivery is at work
WebhooksAtRest == \A c \in CallIds : calls[c].op # "webhook"

\* C22: once the webhook has handled a deposit, a rejected deposit has left
\* its booking cancelada with the slot released, and an approved deposit has
\* changed nothing of the booking but its paymentStatus.
C22_RejectedDepositCancels ==
  \A b \in BookingIds :
    (bookings[b].exists /\ WebhooksAtRest) =>
      /\ bookings[b].paymentStatus = "rejeitado" =>
           /\ bookings[b].status = "cancelada"
           /\ ~slotReserved(bookings[b].instructorId, formatDateKey(bookings[b].date))
      /\ bookings[b].paymentStatus = "aprovado" => bookings[b].status = "pendente"

\* ------------------------------------------------------------------ C23
\* C23: in every state, the states between two writes of a handler included,
\* a calendar slot is reserved exactly when the booking it names is pendente
\* or confirmada and scheduled at that slot.
C23_SlotLedgerMatchesBookings ==
  /\ \A i \in Instructors, k \in SlotKeys :
       slotReserved(i, k) =>
         LET b == calendar[<<i, k>>].bookingId
         IN /\ b \in BookingIds
            /\ b \in ActiveOn(i, k)
  /\ \A b \in BookingIds :
       (bookings[b].exists /\ bookings[b].status \in ActiveStatuses) =>
         LET k == <<bookings[b].instructorId, formatDateKey(bookings[b].date)>>
         IN slotReserved(k[1], k[2]) /\ calendar[k].bookingId = b

\* ----------------------------------------------------------- SpecFailures
\* SpecSerial where a write of a side effect can fail: the handler throws
\* from where it is and the call returns an error
Failed(handler, b) == [op |-> "failed", handler |-> handler, b |-> b]

\* createBooking step 6: processDepositPayment throws 'Failed to process
\* payment' after the transaction has committed; steps 7-9 are not run
CreateDepositFails(c) ==
  /\ calls[c].op = "create" /\ calls[c].pc = "schedule"
  /\ calls' = [calls EXCEPT ![c] = Failed("createBooking", calls[c].b)]
  /\ UNCHANGED <<now, bookings, calendar, bookingTimeouts, paymentReleaseQueue,
                 refunds, wallet, walletTransactions>>
  /\ UNCHANGED <<crashes, refundVars, validationVars, otherVars>>

\* cancelBooking step 8: processRefund throws 'Failed to process refund'
\* after the booking update and the slot release; step 9 is not run
CancelRefundFails(c) ==
  /\ calls[c].op = "cancel" /\ calls[c].pc = "settle"
  /\ LET amount == refundAmountOf(calls[c].policy, calls[c].snap.price)
     IN amount # NaN /\ amount > 0
  /\ calls' = [calls EXCEPT ![c] = Failed("cancelBooking", calls[c].b)]
  /\ UNCHANGED <<now, bookings, calendar, bookingTimeouts, paymentReleaseQueue,
                 refunds, wallet, walletTransactions>>
  /\ UNCHANGED <<crashes, refundVars, validationVars, otherVars>>

\* catch: throw new functions.https.HttpsError(...)
ErrorReturn(c) ==
  /\ calls[c].op = "failed"
  /\ calls' = [calls EXCEPT ![c] = Idle]
  /\ UNCHANGED <<now, bookings, calendar, bookingTimeouts, paymentReleaseQueue,
                 refunds, wallet, walletTransactions>>
  /\ UNCHANGED <<crashes, refundVars, validationVars, otherVars>>

NextFailures ==
  \/ Tick
  \/ Handlers({1})
  \/ CreateDepositFails(1)
  \/ CancelRefundFails(1)
  \/ ErrorReturn(1)

SpecFailures == Init /\ [][NextFailures]_vars

\* ------------------------------------------------------------------ C24
\* C24: when createBooking or cancelBooking returns an error, the booking
\* and its slot are as they were before the call: no booking was created,
\* and a booking to cancel is still pendente or confirmada with its slot
\* reserved.
C24_ErrorLeavesBookingUntouched ==
  \A c \in CallIds :
    calls[c].op = "failed" =>
      LET b == calls[c].b
          k == <<bookings[b].instructorId, formatDateKey(bookings[b].date)>>
      IN /\ calls[c].handler = "createBooking" => ~bookings[b].exists
         /\ calls[c].handler = "cancelBooking" =>
              /\ bookings[b].status \in ActiveStatuses
              /\ slotReserved(k[1], k[2])

\* ----------------------------------------------------------- FairFailures
\* the steps of one run of processBookingTimeouts
TimeoutSteps(c) ==
  \/ TimeoutsQuery(c)
  \/ \E b \in Existing : TimeoutsReadBooking(c, b)
  \/ TimeoutsUpdate(c)
  \/ TimeoutsDeleteSlot(c)
  \/ TimeoutsRefund(c)
  \/ TimeoutsMark(c)

\* the steps of a request after its first
RequestSteps(c) ==
  \/ CreateScheduleTimeout(c)
  \/ ConfirmUpdate(c)
  \/ ConfirmCancelTimeout(c)
  \/ CancelUpdate(c)
  \/ CancelReleaseSlot(c)
  \/ CancelSettle(c)
  \/ CompleteUpdate(c)
  \/ CompleteSchedule(c)

\* time passes, a request that has started goes on to its end or its error,
\* and the scheduler starts the timeout poller again and again; users are
\* free to send no request
FairFailures ==
  /\ SpecFailures
  /\ WF_vars(Tick)
  /\ WF_vars(RequestSteps(1) \/ CreateDepositFails(1) \/ CancelRefundFails(1)
               \/ ErrorReturn(1))
  /\ SF_vars(TimeoutSteps(1))

\* ------------------------------------------------------------------ C25
\* a pendente booking whose createBooking call is over and whose timeout
\* record, if it has one, falls due within the time modelled
PendenteDue(b) ==
  /\ bookings[b].exists
  /\ bookings[b].status = "pendente"
  /\ \A c \in CallIds : calls[c].op \in {"create", "failed"} => calls[c].b # b
  /\ bookingTimeouts[b].exists => bookingTimeouts[b].scheduledFor <= MaxTicks * 60

\* C25: every booking created in status pendente eventually leaves pendente,
\* also when a step of createBooking after the transaction fails.
C25_PendenteIsBounded ==
  \A b \in BookingIds : PendenteDue(b) ~> ~PendenteDue(b)

\* ------------------------------------------------------------ SpecRelease
\* a confirmed lesson, its completion by the instructor and the release of
\* the payment a day later
InitRelease ==
  /\ now = 0
  /\ \E d \in Dates, h \in {1, 2} :
       /\ bookings = [b \in BookingIds |->
            IF b = 1 THEN confirmUpdate(newBooking("s1", "i1", d, h)) ELSE NoBooking]
       /\ calendar = [k \in Instructors \X SlotKeys |->
            IF k = <<"i1", formatDateKey(d)>>
            THEN [exists |-> TRUE, reserved |-> TRUE, bookingId |-> 1] ELSE NoSlot]
  /\ bookingTimeouts = [b \in BookingIds |->
       IF b = 1 THEN [exists |-> TRUE, scheduledFor |-> AcceptanceWindow,
                      processed |-> TRUE]
       ELSE NoTimeout]
  /\ paymentReleaseQueue = <<>>
  /\ refunds = EmptyBag
  /\ wallet = [available |-> 0, blocked |-> 0, total |-> 0, penalties |-> 0]
  /\ walletTransactions = EmptyBag
  /\ calls = [c \in CallIds |-> Idle]
  /\ crashes = 0
  /\ NoPaymentYet
  /\ NoValidationYet
  /\ NoOtherYet

\* the wall clock, a day at a time
TickDay ==
  /\ now < ReleaseDelay
  /\ now' = now + ReleaseDelay
  /\ UNCHANGED <<bookings, calendar, bookingTimeouts, paymentReleaseQueue,
                 refunds, wallet, walletTransactions, calls>>
  /\ UNCHANGED <<crashes, refundVars, validationVars, otherVars>>

\* the steps of one run of processPaymentReleases
ReleaseSteps(c) ==
  \/ ReleasesQuery(c)
  \/ \E n \in 1..Len(paymentReleaseQueue) : ReleasesCredit(c, n)
  \/ ReleasesRecord(c)
  \/ ReleasesMark(c)

\* the steps of markLessonCompleted after its read
CompleteSteps(c) ==
  \/ CompleteUpdate(c)
  \/ CompleteSchedule(c)
  \/ CompleteChargeFails(c)

NextRelease ==
  \/ Tick
  \/ TickDay
  \/ \E u \in Users, b \in Existing : CompleteRead(1, u, b)
  \/ CompleteSteps(1)
  \/ ReleaseSteps(1)

SpecRelease == InitRelease /\ [][NextRelease]_vars

\* time passes, a request that has started goes on to its end, and the
\* scheduler starts the release poller again and again
FairRelease ==
  /\ SpecRelease
  /\ WF_vars(TickDay)
  /\ WF_vars(CompleteSteps(1))
  /\ SF_vars(ReleaseSteps(1))

\* ------------------------------------------------------------------ C26
\* a markLessonCompleted call on booking b has not returned yet
Completing(b) ==
  \E c \in CallIds : calls[c].op = "complete" /\ calls[c].b = b

\* the release records of booking b
ReleasesOf(b) ==
  {n \in 1..Len(paymentReleaseQueue) : paymentReleaseQueue[n].bookingId = b}

\* release record n exists and falls due within the time modelled
ReleaseDue(n) ==
  IF n <= Len(paymentReleaseQueue)
  THEN paymentReleaseQueue[n].scheduledFor <= MaxTicks * 60 + ReleaseDelay
  ELSE FALSE

\* the wallet has been credited the instructorAmount of release record n
Credited(n) ==
  IF n <= Len(paymentReleaseQueue)
  THEN /\ paymentReleaseQueue[n].processed
       /\ [type |-> "credit", amount |-> paymentReleaseQueue[n].instructorAmount,
           bookingId |-> paymentReleaseQueue[n].bookingId]
             \in BagToSet(walletTransactions)
       /\ wallet.available >= paymentReleaseQueue[n].instructorAmount
  ELSE FALSE

TimesApplied(r) ==
  LET E == existingWebhook(r)
      RECURSIVE Sum(_)
      Sum(S) == IF S = {} THEN 0
                ELSE LET e == CHOOSE x \in S : TRUE
                     IN CopiesIn(e, webhookEvents) + Sum(S \ {e})
  IN Sum(E)

\* C27: however often and however concurrently a webhook with one request id
\* is delivered, its updates and notifications are applied at most once.
C27_WebhookAppliedOnce ==
  \A r \in RequestIds : TimesApplied(r) <= 1

\* ---------------------------------------------------- requestWithdrawal
\* the withdrawals one instructor asks for
MaxWithdrawals == 2
\* the minimum amount and the PIX fee, in reais
MinWithdrawal == 100
PixFee == 2

\* the amounts and methods an instructor asks for
WithdrawalAmounts == {50, 100}
WithdrawalMethods == {"pix", "ted"}

\* the withdrawals that have been accepted or are about to be
WithdrawalsStarted ==
  Len(withdrawals) + Cardinality({c \in CallIds :
     calls[c].op = "withdraw" /\ calls[c].pc = "transaction"})

\* steps 1 and 3: the minimum amount, and the balance of the wallet the
\* handler read
withdrawalCheck(w, amount) ==
  IF amount < MinWithdrawal THEN "validation"
  ELSE IF w.available < amount THEN "insufficient"
  ELSE ""

\* step 4: fee = PIX ? 2 : 0
feeOf(method) == IF method = "pix" THEN PixFee ELSE 0

\* steps 1-4: validation, the read of the instructor's wallet, the balance
\* check and the fee, all before the transaction
WithdrawalRead(c, amount, method) ==
  /\ IdleCall(c)
  /\ WithdrawalsStarted < MaxWithdrawals
  /\ calls' = [calls EXCEPT ![c] =
       IF withdrawalCheck(wallet, amount) # "" THEN Idle
       ELSE [op |-> "withdraw", pc |-> "transaction", amount |-> amount,
             method |-> method, fee |-> feeOf(method),
             netAmount |-> amount - feeOf(method), id |-> 0]]
  /\ UNCHANGED <<now, bookings, calendar, bookingTimeouts, paymentReleaseQueue,
                 refunds, wallet, walletTransactions>>
  /\ UNCHANGED <<crashes, refundVars, validationVars, otherVars>>

\* transaction.update: wallet.available -= amount, wallet.blocked += amount
blockedWallet(w, amount) ==
  [w EXCEPT !.available = @ - amount, !.blocked = @ + amount]

\* step 5: the transaction; it reads nothing, its increments apply to
\* whatever the wallet holds when it commits
WithdrawalTransaction(c) ==
  /\ calls[c].op = "withdraw" /\ calls[c].pc = "transaction"
  /\ wallet' = blockedWallet(wallet, calls[c].amount)
  /\ withdrawals' = Append(withdrawals,
       [amount |-> calls[c].amount, fee |-> calls[c].fee,
        netAmount |-> calls[c].netAmount, method |-> calls[c].method,
        status |-> "processing"])
  /\ calls' = [calls EXCEPT ![c].id = Len(withdrawals) + 1,
                            ![c].pc = IF calls[c].method = "pix"
                                      THEN "pix_complete" ELSE "ted_queue"]
  /\ UNCHANGED <<now, bookings, calendar, bookingTimeouts, paymentReleaseQueue,
                 refunds, walletTransactions>>
  /\ UNCHANGED <<crashes, refundVars, validationVars, detranValidationQueue,
                 webhookVars, tedBatchQueue>>

\* -------------------------------------------------- processPixWithdrawal
\* withdrawals.doc(id).update({status: 'completed'})
PixComplete(c) ==
  /\ calls[c].op = "withdraw" /\ calls[c].pc = "pix_complete"
  /\ withdrawals' = [withdrawals EXCEPT ![calls[c].id].status = "completed"]
  /\ calls' = [calls EXCEPT ![c].pc = "pix_unblock"]
  /\ UNCHANGED <<now, bookings, calendar, bookingTimeouts, paymentReleaseQueue,
                 refunds, wallet, walletTransactions>>
  /\ UNCHANGED <<crashes, refundVars, validationVars, detranValidationQueue,
                 webhookVars, tedBatchQueue>>

\* wallet.blocked -= amount, wallet.total -= amount
unblockedWallet(w, amount) ==
  [w EXCEPT !.blocked = @ - amount, !.total = @ - amount]

\* the amount processPixWithdrawal is called with is the net amount
PixUnblock(c) ==
  /\ calls[c].op = "withdraw" /\ calls[c].pc = "pix_unblock"
  /\ wallet' = unblockedWallet(wallet, calls[c].netAmount)
  /\ calls' = [calls EXCEPT ![c].pc = "pix_record"]
  /\ UNCHANGED <<now, bookings, calendar, bookingTimeouts, paymentReleaseQueue,
                 refunds, walletTransactions>>
  /\ UNCHANGED <<crashes, refundVars, validationVars, otherVars>>

\* walletTransactions.add({type: withdrawal, amount: -amount, withdrawalId})
withdrawalTransaction(withdrawalId, amount) ==
  [type |-> "withdrawal", amount |-> 0 - amount, withdrawalId |-> withdrawalId]

PixRecord(c) ==
  /\ calls[c].op = "withdraw" /\ calls[c].pc = "pix_record"
  /\ walletTransactions' = walletTransactions (+)
       SetToBag({withdrawalTransaction(calls[c].id, calls[c].netAmount)})
  /\ calls' = [calls EXCEPT ![c].pc = "pix_notify"]
  /\ UNCHANGED <<now, bookings, calendar, bookingTimeouts, paymentReleaseQueue,
                 refunds, wallet>>
  /\ UNCHANGED <<crashes, refundVars, validationVars, otherVars>>

\* notifications.add({type: 'withdrawal_completed'})
withdrawalNotification(withdrawalId) ==
  [type |-> "withdrawal_completed", withdrawalId |-> withdrawalId]

\* the notification, then the handler returns
PixNotify(c) ==
  /\ calls[c].op = "withdraw" /\ calls[c].pc = "pix_notify"
  /\ notifications' = notifications (+)
       SetToBag({withdrawalNotification(calls[c].id)})
  /\ calls' = [calls EXCEPT ![c] = Idle]
  /\ UNCHANGED <<now, bookings, calendar, bookingTimeouts, paymentReleaseQueue,
                 refunds, wallet, walletTransactions>>
  /\ UNCHANGED <<crashes, refundVars, validationVars, detranValidationQueue,
                 webhookEvents, withdrawalVars>>

\* one of the writes of processPixWithdrawal throws: its catch runs
PixFails(c) ==
  /\ calls[c].op = "withdraw"
  /\ calls[c].pc \in {"pix_complete", "pix_unblock", "pix_record", "pix_notify"}
  /\ crashes < MaxCrashes
  /\ crashes' = crashes + 1
  /\ calls' = [calls EXCEPT ![c].pc = "rollback_wallet"]
  /\ UNCHANGED <<now, bookings, calendar, bookingTimeouts, paymentReleaseQueue,
                 refunds, wallet, walletTransactions>>
  /\ UNCHANGED <<refundVars, validationVars, otherVars>>

\* catch: wallet.available += amount, wallet.blocked -= amount
rolledBackWallet(w, amount) ==
  [w EXCEPT !.available = @ + amount, !.blocked = @ - amount]

PixRollbackWallet(c) ==
  /\ calls[c].op = "withdraw" /\ calls[c].pc = "rollback_wallet"
  /\ wallet' = rolledBackWallet(wallet, calls[c].netAmount)
  /\ calls' = [calls EXCEPT ![c].pc = "rollback_status"]
  /\ UNCHANGED <<now, bookings, calendar, bookingTimeouts, paymentReleaseQueue,
                 refunds, walletTransactions>>
  /\ UNCHANGED <<crashes, refundVars, validationVars, otherVars>>

\* catch: withdrawals.doc(id).update({status: 'failed'}), then the error is
\* thrown on
PixRollbackStatus(c) ==
  /\ calls[c].op = "withdraw" /\ calls[c].pc = "rollback_status"
  /\ withdrawals' = [withdrawals EXCEPT ![calls[c].id].status = "failed"]
  /\ calls' = [calls EXCEPT ![c] = Idle]
  /\ UNCHANGED <<now, bookings, calendar, bookingTimeouts, paymentReleaseQueue,
                 refunds, wallet, walletTransactions>>
  /\ UNCHANGED <<crashes, refundVars, validationVars, detranValidationQueue,
                 webhookVars, tedBatchQueue>>

\* ---------------------------------------------------- queueTEDWithdrawal
\* calculateBusinessDays(new Date(), days), with no weekend in between
calculateBusinessDays(startDate, days) == startDate + days * ReleaseDelay

\* tedBatchQueue.add({withdrawalId, amount, scheduledFor, processed: false}),
\* then the handler returns
TedQueue(c) ==
  /\ calls[c].op = "withdraw" /\ calls[c].pc = "ted_queue"
  /\ tedBatchQueue' = Append(tedBatchQueue,
       [withdrawalId |-> calls[c].id, amount |-> calls[c].netAmount,
        scheduledFor |-> calculateBusinessDays(now, 1), processed |-> FALSE])
  /\ calls' = [calls EXCEPT ![c] = Idle]
  /\ UNCHANGED <<now, bookings, calendar, bookingTimeouts, paymentReleaseQueue,
                 refunds, wallet, walletTransactions>>
  /\ UNCHANGED <<crashes, refundVars, validationVars, detranValidationQueue,
                 webhookVars, withdrawals>>

\* ------------------------------------------------------- processTEDBatch
\* tedBatchQueue.where(scheduledFor <= now).where(processed == false)
dueTeds ==
  {n \in 1..Len(tedBatchQueue) : /\ ~tedBatchQueue[n].processed
                                 /\ tedBatchQueue[n].scheduledFor <= now}

\* one scheduled run starts: the query result is what the loop iterates over
TedBatchQuery(c) ==
  /\ IdleCall(c)
  /\ dueTeds # {}
  /\ calls' = [calls EXCEPT ![c] =
        [op |-> "tedbatch", pc |-> "complete", pending |-> dueTeds, n |-> 0]]
  /\ UNCHANGED <<now, bookings, calendar, bookingTimeouts, paymentReleaseQueue,
                 refunds, wallet, walletTransactions>>
  /\ UNCHANGED <<crashes, refundVars, validationVars, otherVars>>

\* the loop takes a record: withdrawals.doc(id).update({status: 'completed'})
TedBatchComplete(c, n) ==
  /\ calls[c].op = "tedbatch" /\ calls[c].pc = "complete"
  /\ n \in calls[c].pending
  /\ withdrawals' = [withdrawals EXCEPT
                       ![tedBatchQueue[n].withdrawalId].status = "completed"]
  /\ calls' = [calls EXCEPT ![c].n = n, ![c].pc = "unblock"]
  /\ UNCHANGED <<now, bookings, calendar, bookingTimeouts, paymentReleaseQueue,
                 refunds, wallet, walletTransactions>>
  /\ UNCHANGED <<crashes, refundVars, validationVars, detranValidationQueue,
                 webhookVars, tedBatchQueue>>

\* wallet.blocked -= ted.amount, wallet.total -= ted.amount
TedBatchUnblock(c) ==
  /\ calls[c].op = "tedbatch" /\ calls[c].pc = "unblock"
  /\ wallet' = unblockedWallet(wallet, tedBatchQueue[calls[c].n].amount)
  /\ calls' = [calls EXCEPT ![c].pc = "record"]
  /\ UNCHANGED <<now, bookings, calendar, bookingTimeouts, paymentReleaseQueue,
                 refunds, walletTransactions>>
  /\ UNCHANGED <<crashes, refundVars, validationVars, otherVars>>

\* walletTransactions.add({type: withdrawal, amount: -ted.amount})
TedBatchRecord(c) ==
  /\ calls[c].op = "tedbatch" /\ calls[c].pc = "record"
  /\ walletTransactions' = walletTransactions (+)
       SetToBag({withdrawalTransaction(tedBatchQueue[calls[c].n].withdrawalId,
                                       tedBatchQueue[calls[c].n].amount)})
  /\ calls' = [calls EXCEPT ![c].pc = "notify"]
  /\ UNCHANGED <<now, bookings, calendar, bookingTimeouts, paymentReleaseQueue,
                 refunds, wallet>>
  /\ UNCHANGED <<crashes, refundVars, validationVars, otherVars>>

TedBatchNotify(c) ==
  /\ calls[c].op = "tedbatch" /\ calls[c].pc = "notify"
  /\ notifications' = notifications (+)
       SetToBag({withdrawalNotification(tedBatchQueue[calls[c].n].withdrawalId)})
  /\ calls' = [calls EXCEPT ![c].pc = "mark"]
  /\ UNCHANGED <<now, bookings, calendar, bookingTimeouts, paymentReleaseQueue,
                 refunds, wallet, walletTransactions>>
  /\ UNCHANGED <<crashes, refundVars, validationVars, detranValidationQueue,
                 webhookEvents, withdrawalVars>>

\* the calls record of a run whose loop is done with record n
tedBatchNext(call) ==
  IF call.pending = {call.n} THEN Idle
  ELSE [call EXCEPT !.pending = @ \ {call.n}, !.n = 0, !.pc = "complete"]

\* tedDoc.ref.update({processed: true}); the loop goes on or the run ends
TedBatchMark(c) ==
  /\ calls[c].op = "tedbatch" /\ calls[c].pc = "mark"
  /\ tedBatchQueue' = [tedBatchQueue EXCEPT ![calls[c].n].processed = TRUE]
  /\ calls' = [calls EXCEPT ![c] = tedBatchNext(calls[c])]
  /\ UNCHANGED <<now, bookings, calendar, bookingTimeouts, paymentReleaseQueue,
                 refunds, wallet, walletTransactions>>
  /\ UNCHANGED <<crashes, refundVars, validationVars, detranValidationQueue,
                 webhookVars, withdrawals>>

\* a write of the loop body throws: the catch marks the withdrawal failed and
\* the loop goes on; the record stays unprocessed
TedBatchFails(c) ==
  /\ calls[c].op = "tedbatch"
  /\ calls[c].pc \in {"unblock", "record", "notify", "mark"}
  /\ crashes < MaxCrashes
  /\ crashes' = crashes + 1
  /\ withdrawals' = [withdrawals EXCEPT
       ![tedBatchQueue[calls[c].n].withdrawalId].status = "failed"]
  /\ calls' = [calls EXCEPT ![c] = tedBatchNext(calls[c])]
  /\ UNCHANGED <<now, bookings, calendar, bookingTimeouts, paymentReleaseQueue,
                 refunds, wallet, walletTransactions>>
  /\ UNCHANGED <<refundVars, validationVars, detranValidationQueue,
                 webhookVars, tedBatchQueue>>

\* ------------------------------------------------------------ SpecWallet
\* an instructor with a completed lesson whose payment is due for release
\* and a confirmed lesson four hours ahead
InitWallet ==
  /\ now = 120 + ReleaseDelay
  /\ bookings = [b \in BookingIds |->
       IF b = 1
       THEN completeUpdate(confirmUpdate(
              [newBooking("s1", "i1", 120, 2) EXCEPT !.createdAt = 0]))
       ELSE confirmUpdate(
              [newBooking("s1", "i1", 1800, 2) EXCEPT !.createdAt = 0])]
  /\ calendar = [k \in Instructors \X SlotKeys |->
       IF k = <<"i1", formatDateKey(120)>>
       THEN [exists |-> TRUE, reserved |-> TRUE, bookingId |-> 1]
       ELSE IF k = <<"i1", formatDateKey(1800)>>
       THEN [exists |-> TRUE, reserved |-> TRUE, bookingId |-> 2]
       ELSE NoSlot]
  /\ bookingTimeouts = [b \in BookingIds |->
       [exists |-> TRUE, scheduledFor |-> AcceptanceWindow, processed |-> TRUE]]
  /\ paymentReleaseQueue =
       <<[releaseRecord(1, "i1", totalPriceOf("i1", 2))
            EXCEPT !.scheduledFor = 120 + ReleaseDelay]>>
  /\ refunds = EmptyBag
  /\ wallet = [available |-> 0, blocked |-> 0, total |-> 0, penalties |-> 0]
  /\ walletTransactions = EmptyBag
  /\ calls = [c \in CallIds |-> Idle]
  /\ crashes = 0
  /\ NoPaymentYet
  /\ NoValidationYet
  /\ NoOtherYet

\* the wall clock, a day at a time, while a TED withdrawal waits for its batch
TickBusinessDay ==
  /\ \E n \in 1..Len(tedBatchQueue) : tedBatchQueue[n].scheduledFor > now
  /\ now' = now + ReleaseDelay
  /\ UNCHANGED <<bookings, calendar, bookingTimeouts, paymentReleaseQueue,
                 refunds, wallet, walletTransactions, calls>>
  /\ UNCHANGED <<crashes, refundVars, validationVars, otherVars>>

\* the steps of one requestWithdrawal call after its balance check
WithdrawalSteps(c) ==
  \/ WithdrawalTransaction(c)
  \/ PixComplete(c)
  \/ PixUnblock(c)
  \/ PixRecord(c)
  \/ PixNotify(c)
  \/ PixFails(c)
  \/ PixRollbackWallet(c)
  \/ PixRollbackStatus(c)
  \/ TedQueue(c)

\* the steps of one run of processTEDBatch
TedBatchSteps(c) ==
  \/ TedBatchQuery(c)
  \/ \E n \in 1..Len(tedBatchQueue) : TedBatchComplete(c, n)
  \/ TedBatchUnblock(c)
  \/ TedBatchRecord(c)
  \/ TedBatchNotify(c)
  \/ TedBatchMark(c)
  \/ TedBatchFails(c)

\* one request or scheduled run at a time
NextWallet ==
  \/ TickBusinessDay
  \/ \E a \in WithdrawalAmounts, m \in WithdrawalMethods : WithdrawalRead(1, a, m)
  \/ WithdrawalSteps(1)
  \/ TedBatchSteps(1)
  \/ ReleaseSteps(1)
  \/ \E u \in Users, t \in UserTypes, b \in Existing : CancelRead(1, u, t, b)
  \/ CancelUpdate(1)
  \/ CancelReleaseSlot(1)
  \/ CancelSettle(1)

SpecWallet == InitWallet /\ [][NextWallet]_vars

\* requests of one instructor that run side by side, and the release poller
NextWithdraw ==
  \/ \E c \in Racers, a \in WithdrawalAmounts, m \in WithdrawalMethods :
       WithdrawalRead(c, a, m)
  \/ \E c \in Racers : WithdrawalSteps(c)
  \/ \E c \in Racers : ReleaseSteps(c)
  \/ \E c \in Racers, u \in Instructors, b \in Existing :
       CancelRead(c, u, "instructor", b)
  \/ \E c \in Racers : CancelUpdate(c)
  \/ \E c \in Racers : CancelReleaseSlot(c)
  \/ \E c \in Racers : CancelSettle(c)

SpecWithdraw == InitWallet /\ [][NextWithdraw]_vars

\* ------------------------------------------------------------------ C28
\* C28: in every reachable state of the instructor's wallet,
\* total = available + blocked, whatever releases, cancellation penalties,
\* withdrawal requests, PIX and TED completions and rollbacks have happened.
C28_TotalIsAvailablePlusBlocked ==
  wallet.total = wallet.available + wallet.blocked

\* ------------------------------------------------------------------ C29
\* C29: a withdrawal never takes wallet.available below zero, for any
\* interleaving of requestWithdrawal calls of one instructor: no transaction
\* of requestWithdrawal commits on a balance smaller than its amount.
C29_WithdrawalWithinBalance ==
  [][\A c \in CallIds :
       (/\ calls[c].op = "withdraw" /\ calls[c].pc = "transaction"
        /\ calls'[c].op = "withdraw" /\ calls'[c].pc # "transaction")
       => /\ wallet.available >= calls[c].amount
          /\ wallet'.available >= 0]_vars

\* ------------------------------------------------------------------ C30
\* the sum of the refund records of booking b
RefundedTotal(b) ==
  LET RECURSIVE Sum(_)
      Sum(S) == IF S = {} THEN 0
                ELSE LET r == CHOOSE x \in S : TRUE
                     IN r.amount * CopiesIn(r, refunds) + Sum(S \ {r})
  IN Sum(RefundsOf(b))

\* the most that has been charged for a booking that is not completed: its
\* 20% deposit
ChargedAtMost(b) == bookings[b].depositAmount

\* C30: the total refunded for a booking never exceeds the total charged for
\* it: cancelling a booking for which at most the deposit has been paid never
\* produces refund records larger than the amount paid.
C30_RefundWithinCharged ==
  \A b \in Existing : RefundedTotal(b) <= ChargedAtMost(b)

====
